---- MODULE Spec2Model ----
(***************************************************************************)
(* Zyntax: the natural-language-to-command parser (zyntax/nlp_engine/      *)
(* parser.py) and the interactive read loop that drives it                 *)
(* (zyntax/main.py).                                                       *)
(*                                                                         *)
(* Text is modelled as a sequence of tokens.  A token is one of the        *)
(* characters the parser looks for (" ", "|", ">", "\"", newline) or a     *)
(* whole word of a small vocabulary; the concatenation of the tokens is    *)
(* the Python string.  No vocabulary word is a prefix of another token, so *)
(* str.startswith, str.split and the regular expressions of the source act *)
(* on whole tokens.                                                        *)
(***************************************************************************)
EXTENDS Integers, Sequences, FiniteSets, TLC

\* ------------------------------------------------------------------------
\* Strings
\* ------------------------------------------------------------------------
SP == " "
NL == "\n"
PIPE == "|"
GT == ">"
DQ == "\""

IsSpace(t) == t \in {SP, NL}

\* str.lower(), token by token (the vocabulary has two upper-case tokens)
LowerTok(t) ==
  CASE t = "Y" -> "y"
    [] t = "YES" -> "yes"
    [] t = "FOO" -> "foo"
    [] OTHER -> t

lower(s) == [i \in 1..Len(s) |-> LowerTok(s[i])]

RECURSIVE lstrip(_)
lstrip(s) ==
  IF s = <<>> THEN s
  ELSE IF IsSpace(Head(s)) THEN lstrip(Tail(s)) ELSE s

RECURSIVE rstrip(_)
rstrip(s) ==
  IF s = <<>> THEN s
  ELSE IF IsSpace(s[Len(s)]) THEN rstrip(SubSeq(s, 1, Len(s) - 1)) ELSE s

\* str.strip()
strip(s) == rstrip(lstrip(s))

\* str.startswith(p)
startswith(s, p) == Len(p) <= Len(s) /\ SubSeq(s, 1, Len(p)) = p

\* s[n:]
DropN(s, n) == SubSeq(s, n + 1, Len(s))

\* `tok in s` for a one-character token
HasTok(s, t) == \E i \in 1..Len(s) : s[i] = t

\* s.split(t)
RECURSIVE SplitOn(_, _)
SplitOn(s, t) ==
  IF ~HasTok(s, t) THEN <<s>>
  ELSE LET k == CHOOSE i \in 1..Len(s) :
                  s[i] = t /\ \A j \in 1..(i - 1) : s[j] # t
       IN <<SubSeq(s, 1, k - 1)>> \o SplitOn(DropN(s, k), t)

\* [x.strip() for x in parts if x.strip()]
RECURSIVE StripNonEmpty(_)
StripNonEmpty(parts) ==
  IF parts = <<>> THEN <<>>
  ELSE LET h == strip(Head(parts))
       IN (IF h = <<>> THEN <<>> ELSE <<h>>) \o StripNonEmpty(Tail(parts))

\* shlex.split(s): whitespace separates words, a double quote opens a span
\* that runs to the next double quote and is removed, an unclosed quote
\* raises ValueError (ok = FALSE).
RECURSIVE ShlexScan(_, _, _, _, _, _)
ShlexScan(s, i, inq, cur, started, parts) ==
  IF i > Len(s)
  THEN IF inq THEN [ok |-> FALSE, parts |-> <<>>]
       ELSE [ok |-> TRUE,
             parts |-> IF started THEN Append(parts, cur) ELSE parts]
  ELSE LET t == s[i] IN
       IF inq
       THEN IF t = DQ THEN ShlexScan(s, i + 1, FALSE, cur, started, parts)
            ELSE ShlexScan(s, i + 1, TRUE, Append(cur, t), started, parts)
       ELSE IF t = DQ THEN ShlexScan(s, i + 1, TRUE, cur, TRUE, parts)
       ELSE IF IsSpace(t)
            THEN IF started
                 THEN ShlexScan(s, i + 1, FALSE, <<>>, FALSE, Append(parts, cur))
                 ELSE ShlexScan(s, i + 1, FALSE, cur, started, parts)
       ELSE ShlexScan(s, i + 1, FALSE, Append(cur, t), TRUE, parts)

shlex_split(s) == ShlexScan(s, 1, FALSE, <<>>, FALSE, <<>>)

\* ------------------------------------------------------------------------
\* Segmenter (parse_input, first half)
\* ------------------------------------------------------------------------
REDIRECTION_CHARS == {GT}

\* NL_PIPE_PATTERN restricted to the vocabulary: r'\s+phir\s+'.  The result is
\* the position of the leftmost "phir" that has white space on both sides,
\* 0 when the pattern does not match.
NL_PIPE_PATTERN_search(s) ==
  LET hits == {k \in 2..(Len(s) - 1) :
                 s[k] = "phir" /\ IsSpace(s[k - 1]) /\ IsSpace(s[k + 1])}
  IN IF hits = {} THEN 0
     ELSE CHOOSE k \in hits : \A j \in hits : k <= j

\* s.split('|') stripped and filtered when s has a '|', else [s]
PipeOrWhole(s) ==
  IF HasTok(s, PIPE) THEN StripNonEmpty(SplitOn(s, PIPE)) ELSE <<s>>

\* the while loop that fills pipe_segments_raw
RECURSIVE pipe_segments_raw(_)
pipe_segments_raw(cur) ==
  LET k == NL_PIPE_PATTERN_search(cur) IN
  IF k # 0
  THEN LET first == strip(SubSeq(cur, 1, k - 1))
           rest == strip(DropN(cur, k))
           got == IF first # <<>> THEN PipeOrWhole(first) ELSE <<>>
       IN IF rest = <<>> THEN got ELSE got \o pipe_segments_raw(rest)
  ELSE IF cur # <<>> THEN PipeOrWhole(cur) ELSE <<>>

pipe_segments(original_text) ==
  LET raw == pipe_segments_raw(original_text)
      raw2 == IF raw = <<>> /\ original_text # <<>>
              THEN <<original_text>> ELSE raw
  IN StripNonEmpty(raw2)

\* ------------------------------------------------------------------------
\* Lexicons, restricted to the strings the vocabulary can spell
\* ------------------------------------------------------------------------
WordToks ==
  {"ls", "cat", "wc", "head", "grep", "foo", "phir", "a.txt", "b.txt", "to",
   "the", "5", "755", "mv", "move", "pwd", "git", "commit", "-m", "chmod",
   "make", "directory", "list", "files", "executable", "rm", "changes",
   "cd", "go", "back", "home", "..", "/root", "change",
   "find", "containing", "-r", "-rf", "a-r.txt", "FOO"}

IsWordTok(t) == t \in WordToks

\* len() of a token and of a string
CharLen(t) == IF t \in {"ls", "wc", "to", "mv", "rm", "-m", "cd", "go", "..",
                       "-r"}
              THEN 2
              ELSE IF t \in {"cat", "foo", "FOO", "the", "755", "pwd", "git",
                              "-rf"}
              THEN 3
              ELSE IF t \in {"head", "grep", "phir", "move", "make", "list",
                              "back", "home", "find"}
              THEN 4
              ELSE IF t \in {"a.txt", "b.txt", "chmod", "files", "/root"}
              THEN 5
              ELSE IF t \in {"commit", "change"} THEN 6
              ELSE IF t = "a-r.txt" THEN 7
              ELSE IF t = "changes" THEN 7
              ELSE IF t = "directory" THEN 9
              ELSE IF t \in {"executable", "containing"} THEN 10
              ELSE 1

RECURSIVE StrLen(_)
StrLen(s) == IF s = <<>> THEN 0 ELSE CharLen(Head(s)) + StrLen(Tail(s))

COMMAND_VERBS ==
  {<<"ls">>, <<"cat">>, <<"wc">>, <<"head">>, <<"grep">>, <<"mv">>,
   <<"move">>, <<"pwd">>, <<"git">>, <<"commit">>, <<"chmod">>, <<"make">>,
   <<"list">>, <<"executable">>, <<"rm">>, <<"cd">>, <<"go">>,
   <<"change">>, <<"find">>}

ARG_SPLIT_KEYWORDS == {<<"to">>}

ENTITY_IGNORE_WORDS ==
  COMMAND_VERBS \cup {<<"to">>, <<"the">>, <<"directory">>, <<"back">>}

ENTITY_IGNORE_WORDS_FOR_PHRASE_BUILDING == ENTITY_IGNORE_WORDS \ ARG_SPLIT_KEYWORDS

COMMON_SHELL_CMDS == {<<"wc">>, <<"head">>, <<"find">>}

\* ACTION_KEYWORDS: the entries the vocabulary can spell
ACTION_KEYWORDS ==
  {[phrase |-> <<"pwd">>, action |-> "show_path"],
   [phrase |-> <<"list", SP, "directory">>, action |-> "list_files"],
   [phrase |-> <<"list", SP, "files">>, action |-> "list_files"],
   [phrase |-> <<"ls">>, action |-> "list_files"],
   [phrase |-> <<"move", SP, "to", SP, "directory">>,
    action |-> "change_directory"],
   [phrase |-> <<"move", SP, "to">>, action |-> "change_directory"],
   [phrase |-> <<"go", SP, "back">>, action |-> "change_directory"],
   [phrase |-> <<"cd", SP, "..">>, action |-> "change_directory"],
   [phrase |-> <<"cd", SP, "~">>, action |-> "change_directory"],
   [phrase |-> <<"cd">>, action |-> "change_directory"],
   [phrase |-> <<"go", SP, "to", SP, "directory">>,
    action |-> "change_directory"],
   [phrase |-> <<"change", SP, "to", SP, "home", SP, "directory">>,
    action |-> "change_directory"],
   [phrase |-> <<"change", SP, "directory", SP, "to">>,
    action |-> "change_directory"],
   [phrase |-> <<"change", SP, "to">>, action |-> "change_directory"],
   [phrase |-> <<"change", SP, "directory">>, action |-> "change_directory"],
   [phrase |-> <<"make", SP, "directory">>, action |-> "make_directory"],
   [phrase |-> <<"rm">>, action |-> "delete_file"],
   [phrase |-> <<"cat">>, action |-> "display_file"],
   [phrase |-> <<"mv">>, action |-> "move_rename"],
   [phrase |-> <<"move">>, action |-> "move_rename"],
   [phrase |-> <<"commit", SP, "changes">>, action |-> "git_commit"],
   [phrase |-> <<"git", SP, "commit">>, action |-> "git_commit"],
   [phrase |-> <<"grep">>, action |-> "grep"],
   [phrase |-> <<"find", SP, "files", SP, "containing">>, action |-> "grep"],
   [phrase |-> <<"make", SP, "executable">>, action |-> "make_executable"],
   [phrase |-> <<"chmod">>, action |-> "chmod"]}

ActionOf(phrase) ==
  (CHOOSE e \in ACTION_KEYWORDS : e.phrase = phrase).action

\* the tokens with a dot, the tokens with a digit
DottedToks == {".", "a.txt", "b.txt", "..", "a-r.txt"}
DigitToks == {"5", "755"}
SlashToks == {"/root"}

HasDot(s) == \E i \in 1..Len(s) : s[i] \in DottedToks

\* any(char.isdigit() for char in s)
HasDigit(s) == \E i \in 1..Len(s) : s[i] \in DigitToks

\* s.isdigit()
isdigit(s) == s # <<>> /\ \A i \in 1..Len(s) : s[i] \in DigitToks

\* '/' in s
HasSlash(s) == \E i \in 1..Len(s) : s[i] \in SlashToks

\* s in ['..', '~']
IsParentOrHome(s) == s \in {<<"..">>, <<"~">>}

\* s.startswith('-')
StartsDash(s) == s # <<>> /\ s[1] \in {"-m", "-r", "-rf"}

\* one of the characters ./\0123456789" occurs in the string
HasArgChar(s) == HasTok(s, DQ) \/ HasDot(s) \/ HasDigit(s) \/ HasSlash(s)

\* '/' in s or '\\' in s or '.' in s or s in ['..', '~'] or '*' in s
LooksPathLike(s) == HasDot(s) \/ HasSlash(s) \/ IsParentOrHome(s)

\* s.startswith('"') and s.endswith('"')
LooksQuoted(s) == Len(s) >= 1 /\ s[1] = DQ /\ s[Len(s)] = DQ

\* fuzz.ratio(entity_lower, keyword) > ENTITY_FILTER_FUZZY_THRESHOLD + 5 for a
\* keyword of ['folder', 'directory', 'file']: of the vocabulary only the
\* keyword itself is that close (files and file score 89)
is_fuzzy_keyword(s) == s \in {<<"folder">>, <<"directory">>, <<"file">>}

\* ------------------------------------------------------------------------
\* extract_relevant_entities
\* ------------------------------------------------------------------------
\* end of the run of word tokens that starts at i
RECURSIVE RunEnd(_, _)
RunEnd(s, i) ==
  IF i < Len(s) /\ IsWordTok(s[i + 1]) THEN RunEnd(s, i + 1) ELSE i

ExistsLower(ents, et) ==
  \E k \in 1..Len(ents) : lower(ents[k].text) = lower(et)

ExistsExact(ents, et) ==
  \E k \in 1..Len(ents) : ents[k].text = et

\* the re.finditer(path_pattern, text) loop: quoted spans and word runs
RECURSIVE RegexScan(_, _, _, _)
RegexScan(s, i, ents, marks) ==
  IF i > Len(s) THEN [ents |-> ents, marks |-> marks]
  ELSE IF s[i] = DQ /\ (\E c \in (i + 2)..Len(s) : s[c] = DQ)
  THEN LET c == CHOOSE c \in (i + 2)..Len(s) :
                  s[c] = DQ /\ \A d \in (i + 2)..(c - 1) : s[d] # DQ
           et == strip(SubSeq(s, i + 1, c - 1))
       IN IF et # <<>> /\ ~ExistsLower(ents, et)
          THEN RegexScan(s, c + 1, Append(ents, [text |-> et, start |-> i]),
                         marks \cup (i..c))
          ELSE RegexScan(s, c + 1, ents, marks)
  ELSE IF IsWordTok(s[i])
  THEN LET e == RunEnd(s, i)
           et == SubSeq(s, i, e)
       IN IF ~ExistsLower(ents, et)
          THEN RegexScan(s, e + 1, Append(ents, [text |-> et, start |-> i]),
                         marks \cup (i..e))
          ELSE RegexScan(s, e + 1, ents, marks)
  ELSE RegexScan(s, i + 1, ents, marks)

\* the tokens of nlp(text): a run of word tokens is one token, every other
\* character but white space is a token of its own; only the quote is
\* punctuation
RECURSIVE DocTokens(_, _)
DocTokens(s, i) ==
  IF i > Len(s) THEN <<>>
  ELSE IF IsSpace(s[i]) THEN DocTokens(s, i + 1)
  ELSE IF IsWordTok(s[i])
  THEN LET e == RunEnd(s, i)
       IN <<[text |-> SubSeq(s, i, e), idx |-> i, is_punct |-> FALSE]>>
          \o DocTokens(s, e + 1)
  ELSE <<[text |-> <<s[i]>>, idx |-> i, is_punct |-> (s[i] = DQ)]>>
       \o DocTokens(s, i + 1)

_is_token_covered(token, marks) ==
  LET span == token.idx..(token.idx + Len(token.text) - 1)
  IN 2 * Cardinality(span \cap marks) > Cardinality(span)

_is_valid_start_of_entity_phrase(doc, k) ==
  LET t == doc[k].text
      tl == lower(t)
  IN IF HasArgChar(t) \/ IsParentOrHome(t) THEN TRUE
     ELSE IF tl \in COMMAND_VERBS
     THEN k > 1 /\ lower(doc[k - 1].text) \in
            {<<"ls">>, <<"grep">>, <<"head">>, <<"wc">>}
     ELSE tl \notin ENTITY_IGNORE_WORDS_FOR_PHRASE_BUILDING
          \/ tl \in ARG_SPLIT_KEYWORDS

_is_valid_continuation_of_entity_phrase(t) ==
  LET tl == lower(t)
  IN \/ tl \in ARG_SPLIT_KEYWORDS
     \/ tl \notin ENTITY_IGNORE_WORDS_FOR_PHRASE_BUILDING
     \/ HasArgChar(t) \/ IsParentOrHome(t)

\* " ".join(current_phrase_tokens_text)
RECURSIVE JoinSP(_)
JoinSP(parts) ==
  IF parts = <<>> THEN <<>>
  ELSE IF Len(parts) = 1 THEN parts[1]
  ELSE parts[1] \o <<SP>> \o JoinSP(Tail(parts))

ClosePhrase(ents, cur, start) ==
  LET et == strip(JoinSP(cur))
  IN IF cur # <<>> /\ et # <<>> /\ ~ExistsExact(ents, et)
     THEN Append(ents, [text |-> et, start |-> start])
     ELSE ents

\* the loop over doc_tokens that builds the phrases the regex left over
RECURSIVE PhraseScan(_, _, _, _, _, _)
PhraseScan(doc, k, marks, ents, cur, start) ==
  IF k > Len(doc) THEN ClosePhrase(ents, cur, start)
  ELSE LET tok == doc[k] IN
       IF ~_is_token_covered(tok, marks) /\ ~tok.is_punct
       THEN IF cur = <<>>
            THEN IF _is_valid_start_of_entity_phrase(doc, k)
                 THEN PhraseScan(doc, k + 1, marks, ents, <<tok.text>>, tok.idx)
                 ELSE PhraseScan(doc, k + 1, marks, ents, cur, start)
            ELSE IF _is_valid_continuation_of_entity_phrase(tok.text)
                 THEN PhraseScan(doc, k + 1, marks, ents,
                                 Append(cur, tok.text), start)
                 ELSE LET closed == ClosePhrase(ents, cur, start)
                      IN IF lower(tok.text) \notin ENTITY_IGNORE_WORDS
                            /\ _is_valid_start_of_entity_phrase(doc, k)
                         THEN PhraseScan(doc, k + 1, marks, closed,
                                         <<tok.text>>, tok.idx)
                         ELSE PhraseScan(doc, k + 1, marks, closed, <<>>, 0)
       ELSE PhraseScan(doc, k + 1, marks, ClosePhrase(ents, cur, start), <<>>, 0)

\* entities_with_spans.sort(key=start): a stable insertion sort
RECURSIVE SortByStart(_)
SortByStart(ents) ==
  IF ents = <<>> THEN <<>>
  ELSE LET rest == SortByStart(SubSeq(ents, 1, Len(ents) - 1))
           x == ents[Len(ents)]
           n == Cardinality({k \in 1..Len(rest) : rest[k].start <= x.start})
       IN SubSeq(rest, 1, n) \o <<x>> \o SubSeq(rest, n + 1, Len(rest))

is_path_like_or_num_or_long_or_quoted_or_wild(e) ==
  LooksPathLike(e) \/ HasDigit(e) \/ StrLen(e) > 2 \/ LooksQuoted(e)

KeepEntity(e) ==
  LET el == lower(e)
      long == is_path_like_or_num_or_long_or_quoted_or_wild(e)
  IN /\ ~(el \in COMMAND_VERBS /\ ~long /\ el \notin ARG_SPLIT_KEYWORDS)
     /\ ~(el \in ENTITY_IGNORE_WORDS_FOR_PHRASE_BUILDING /\ ~long
          /\ ~isdigit(e))
     /\ ~(is_fuzzy_keyword(el) /\ ~HasDigit(e) /\ ~LooksPathLike(e)
          /\ ~LooksQuoted(e))
     /\ e # <<>>

\* the final filter and the case-insensitive de-duplication
RECURSIVE FilterUnique(_, _)
FilterUnique(ents, seen) ==
  IF ents = <<>> THEN <<>>
  ELSE LET e == Head(ents).text
       IN IF KeepEntity(e) /\ lower(e) \notin seen
          THEN <<e>> \o FilterUnique(Tail(ents), seen \cup {lower(e)})
          ELSE FilterUnique(Tail(ents), seen)

extract_relevant_entities(text) ==
  LET rx == RegexScan(text, 1, <<>>, {})
      all == PhraseScan(DocTokens(text, 1), 1, rx.marks, rx.ents, <<>>, 0)
  IN FilterUnique(SortByStart(all), {})

\* ------------------------------------------------------------------------
\* select_primary_argument
\* ------------------------------------------------------------------------
selection_ignore_words ==
  (ENTITY_IGNORE_WORDS \ ARG_SPLIT_KEYWORDS) \ COMMAND_VERBS

\* None is the empty string: no argument of the model is empty
select_primary_argument(args_list) ==
  LET first == {k \in 1..Len(args_list) :
                  LooksQuoted(args_list[k]) \/ LooksPathLike(args_list[k])}
      last == {k \in 1..Len(args_list) :
                 lower(args_list[k]) \notin selection_ignore_words}
  IN IF args_list = <<>> THEN <<>>
     ELSE IF first # {}
     THEN LET k == CHOOSE k \in first : \A j \in first : k <= j
          IN IF LooksQuoted(args_list[k])
             THEN SelectSeq(args_list[k], LAMBDA t : t # DQ)
             ELSE args_list[k]
     ELSE IF last # {}
     THEN args_list[CHOOSE k \in last : \A j \in last : k >= j]
     ELSE strip(args_list[Len(args_list)])

\* ------------------------------------------------------------------------
\* Result dictionaries.  keys is the set of keys the dict has; a key that is
\* absent holds the empty value of its type.  isNone marks Python's None and
\* raised an exception that left the function (its class name).
\* ------------------------------------------------------------------------
Blank ==
  [keys |-> {}, isNone |-> FALSE, raised |-> "", type |-> "", action |-> "",
   args |-> <<>>, command |-> <<>>, commands |-> <<>>,
   command_string |-> <<>>, segment_text |-> <<>>,
   suggestion_action_id |-> "", suggestion_phrase |-> <<>>, message |-> <<>>]

NoneResult == [Blank EXCEPT !.isNone = TRUE]

Raise(exc) == [Blank EXCEPT !.raised = exc]

\* an opaque command that leaves its arguments out
RawCommand_without_args(parts, segment_text) ==
  [Blank EXCEPT !.keys = {"type", "command", "segment_text"},
                !.type = "raw_command", !.command = Head(parts),
                !.segment_text = segment_text]

RawCommand(parts, segment_text) ==
  [Blank EXCEPT !.keys = {"type", "command", "args", "segment_text"},
                !.type = "raw_command", !.command = Head(parts),
                !.args = Tail(parts), !.segment_text = segment_text]

RawShellString(text) ==
  [Blank EXCEPT !.keys = {"type", "command_string"},
                !.type = "raw_shell_string", !.command_string = text]

ErrorResult(message) ==
  [Blank EXCEPT !.keys = {"action", "message"},
                !.action = "error", !.message = message]

ActionResult(action_id, parsed_args) ==
  [Blank EXCEPT !.keys = {"action", "args"},
                !.action = action_id, !.args = parsed_args]

SuggestSegment(action_id, phrase, suggestion_args) ==
  [Blank EXCEPT !.keys = {"action", "suggestion_action_id",
                          "suggestion_phrase", "args"},
                !.action = "suggest_segment",
                !.suggestion_action_id = action_id,
                !.suggestion_phrase = phrase, !.args = suggestion_args]

UnrecognizedSegment(segment_text) ==
  [Blank EXCEPT !.keys = {"action", "segment_text"},
                !.action = "unrecognized_segment",
                !.segment_text = segment_text]

\* ------------------------------------------------------------------------
\* Intent Matcher (_parse_single_command_segment, lines 385-561)
\* ------------------------------------------------------------------------
FUZZY_MATCH_THRESHOLD_EXECUTE == 85
FUZZY_MATCH_THRESHOLD_SUGGEST == 60

\* `kw in text` for a keyword given as a token sequence
HasSub(s, kw) ==
  \E i \in 1..(Len(s) - Len(kw) + 1) : SubSeq(s, i, i + Len(kw) - 1) = kw

HasAnySub(s, kws) == \E kw \in kws : HasSub(s, kw)

\* direct_commands, in dictionary order, for the commands of the vocabulary
direct_commands ==
  <<[key |-> <<"cd", SP>>, action |-> "change_directory"],
    [key |-> <<"ls">>, action |-> "list_files"],
    [key |-> <<"pwd">>, action |-> "show_path"],
    [key |-> <<"rm", SP>>, action |-> "delete_file"],
    [key |-> <<"mv", SP>>, action |-> "move_rename"],
    [key |-> <<"cat", SP>>, action |-> "display_file"],
    [key |-> <<"git", SP, "commit", SP>>, action |-> "git_commit"],
    [key |-> <<"grep", SP>>, action |-> "grep"],
    [key |-> <<"chmod", SP>>, action |-> "chmod"],
    [key |-> <<"head", SP>>, action |-> "display_file_head"],
    [key |-> <<"wc", SP>>, action |-> "raw_command"]>>

NoIntent ==
  [action_id |-> "", initial_args |-> <<>>, matched_direct |-> FALSE,
   matched_phrase |-> <<>>, returns |-> FALSE, value |-> Blank]

\* '-r' in s ('-rf' in s implies it): the tokens that hold the characters -r
DashRToks == {"-r", "-rf", "a-r.txt"}
contains_dash_r(s) == \E i \in 1..Len(s) : s[i] \in DashRToks

\* a test that takes only the flags -r and -rf standing alone
Reclassified_flag_only(mapped, initial_args) ==
  IF mapped = "delete_file"
     /\ \E i \in 1..Len(initial_args) : initial_args[i] \in {"-r", "-rf"}
  THEN "delete_directory"
  ELSE mapped

\* lines 421-422: rm with -r in its arguments is delete_directory
Reclassified(mapped, initial_args) ==
  IF mapped = "delete_file" /\ contains_dash_r(lower(initial_args))
  THEN "delete_directory"
  ELSE mapped

\* a test that lets every prefix match
Skipped_never(key, text_lower_segment) == FALSE

\* lines 416-417: an entry without a trailing blank matches the whole
\* segment only
Skipped(key, text_lower_segment) ==
  key[Len(key)] # SP /\ text_lower_segment # lower(key)

\* lines 418-419
DirectMatch(mapped, key, initial_args) ==
  [NoIntent EXCEPT !.action_id = Reclassified(mapped, initial_args),
                   !.initial_args = initial_args,
                   !.matched_direct = TRUE,
                   !.matched_phrase = strip(key)]

\* the loop over direct_commands (lines 406-423)
RECURSIVE DirectScan(_, _, _)
DirectScan(text_segment, text_lower_segment, k) ==
  IF k > Len(direct_commands) THEN NoIntent
  ELSE LET key == direct_commands[k].key
           mapped == direct_commands[k].action
       IN IF ~startswith(text_lower_segment, lower(key))
          THEN DirectScan(text_segment, text_lower_segment, k + 1)
          ELSE IF mapped = "raw_command"
          THEN LET sp == shlex_split(text_segment)
               IN IF sp.ok /\ sp.parts # <<>>
                  THEN [NoIntent EXCEPT !.returns = TRUE,
                          !.value = RawCommand(sp.parts, text_segment)]
                  ELSE NoIntent
          ELSE IF Skipped(key, text_lower_segment)
          THEN DirectScan(text_segment, text_lower_segment, k + 1)
          ELSE DirectMatch(mapped, key,
                           strip(DropN(text_segment, Len(key))))

\* process.extractOne(text, ACTION_KEYWORDS.keys(), scorer=WRatio,
\* score_cutoff=EXECUTE + 5) finds a phrase: the best score is at least 90
extractOne_found(top_matches) ==
  top_matches # <<>> /\ top_matches[1].score >= FUZZY_MATCH_THRESHOLD_EXECUTE + 5

\* lines 425-451: allow-listed shell commands and one-word keywords
Preemptive(text_segment, text_lower_segment, is_part_of_pipe, top_matches) ==
  LET sp == shlex_split(text_segment)
      first_word_lower == lower(Head(sp.parts))
      kw == {e \in ACTION_KEYWORDS : lower(e.phrase) = first_word_lower}
  IN IF ~sp.ok \/ sp.parts = <<>> THEN NoIntent
     ELSE IF is_part_of_pipe /\ first_word_lower \in COMMON_SHELL_CMDS
     THEN [NoIntent EXCEPT !.returns = TRUE,
             !.value = RawCommand(sp.parts, text_segment)]
     ELSE IF kw # {} /\ first_word_lower = text_lower_segment
     THEN [NoIntent EXCEPT !.action_id = (CHOOSE e \in kw : TRUE).action,
                           !.matched_phrase = first_word_lower]
     ELSE IF first_word_lower \in COMMON_SHELL_CMDS
             /\ ~extractOne_found(top_matches)
     THEN [NoIntent EXCEPT !.returns = TRUE,
             !.value = RawShellString(text_segment)]
     ELSE NoIntent

constructive_actions == {"make_directory", "create_file", "make_executable"}

info_actions ==
  {"show_path", "list_files", "whoami", "git_status", "show_processes",
   "disk_usage", "memory_usage", "system_uptime", "network_interfaces",
   "env_variables", "display_file", "display_file_head",
   "display_file_tail", "count_lines"}

contains_folder_kw(t) ==
  HasAnySub(t, {<<"folder">>, <<"directory">>, <<"dir">>, <<"banao">>})
\* file occurs in files and .txt in a.txt and b.txt
contains_file_kw(t) ==
  HasAnySub(t, {<<"file">>, <<"nai">>, <<"khali">>, <<".py">>, <<".txt">>,
                <<".js">>, <<".sh">>, <<".md">>, <<".json">>, <<"files">>,
                <<"a.txt">>, <<"b.txt">>, <<"a-r.txt">>})
contains_path_kw(t) ==
  HasAnySub(t, {<<"path">>, <<"kahan">>, <<"directory">>, <<"folder">>,
                <<"where">>, <<"kis", SP, "folder">>,
                <<"current", SP, "folder">>, <<"konsa", SP, "folder">>,
                <<"andar", SP, "hoon">>, <<"location">>, <<"jagah">>})
contains_list_kw(t) ==
  /\ HasAnySub(t, {<<"list">>, <<"show">>, <<"kya", SP, "kya">>,
                   <<"cheezein">>, <<"dikhao">>,
                   <<"andar", SP, "kya", SP, "hai">>, <<"files">>,
                   <<"content">>})
  /\ ~contains_file_kw(t)
contains_executable_kw(t) == HasSub(t, <<"executable">>)
contains_remove_kw(t) ==
  HasAnySub(t, {<<"remove">>, <<"delete">>, <<"hatao">>, <<"rm">>})
contains_move_rename_kw(t) ==
  HasAnySub(t, {<<"move", SP>>, <<"mv", SP>>, <<"rename", SP>>,
                <<"naam", SP, "badlo">>})
contains_cd_kw(t) ==
  HasAnySub(t, {<<"change", SP, "to">>, <<"cd", SP>>, <<"go", SP, "to">>})

\* context_score_current / context_score_best (lines 486-514)
context_score(a, t) ==
  IF a \in info_actions
  THEN IF a = "show_path" /\ contains_path_kw(t) THEN 2
       ELSE IF a = "list_files" /\ contains_list_kw(t) THEN 1
       ELSE IF a = "display_file" /\ contains_file_kw(t) /\ ~contains_list_kw(t)
       THEN 3 ELSE 0
  ELSE IF a \in constructive_actions
  THEN IF a = "make_directory" /\ contains_folder_kw(t) THEN 3
       ELSE IF a = "create_file" /\ contains_file_kw(t) THEN 3
       ELSE IF a = "make_executable" /\ contains_executable_kw(t) THEN 3
       ELSE 0
  ELSE IF a = "delete_file" /\ contains_remove_kw(t) /\ contains_file_kw(t)
  THEN 2
  ELSE IF a = "delete_directory" /\ contains_remove_kw(t)
          /\ contains_folder_kw(t)
  THEN 2
  ELSE IF a = "move_rename" /\ contains_move_rename_kw(t) THEN 4
  ELSE IF a = "change_directory" /\ contains_cd_kw(t) /\ contains_path_kw(t)
  THEN 4
  ELSE 0

NoCandidate == [phrase |-> <<>>, score |-> 0, action |-> ""]

\* a choice between equal scores by the length of the phrase alone
Replaces_by_length_only(cand, best, t) ==
  /\ cand.score >= FUZZY_MATCH_THRESHOLD_EXECUTE
  /\ \/ best = NoCandidate
     \/ cand.score > best.score
     \/ /\ cand.score = best.score
        /\ StrLen(cand.phrase) > StrLen(best.phrase)

\* lines 464-520: the candidate takes the place of best_execute_candidate
Replaces(cand, best, t) ==
  /\ cand.score >= FUZZY_MATCH_THRESHOLD_EXECUTE
  /\ \/ best = NoCandidate
     \/ cand.score > best.score
     \/ /\ cand.score = best.score
        /\ \/ context_score(cand.action, t) > context_score(best.action, t)
           \/ /\ context_score(cand.action, t) = context_score(best.action, t)
              /\ StrLen(cand.phrase) > StrLen(best.phrase)

NextBest(cand, best, t) == IF Replaces(cand, best, t) THEN cand ELSE best

\* the loop that picks best_execute_candidate (lines 462-520)
RECURSIVE BestExecute(_, _, _, _)
BestExecute(top_matches, k, t, best) ==
  IF k > Len(top_matches) THEN best
  ELSE BestExecute(top_matches, k + 1, t,
                   NextBest([phrase |-> top_matches[k].phrase,
                             score |-> top_matches[k].score,
                             action |-> ActionOf(top_matches[k].phrase)],
                            best, t))

\* the phrases of top_matches that map to one of the actions, in the order
\* of top_matches
PhrasesOf(top_matches, actions) ==
  SelectSeq([k \in 1..Len(top_matches) |-> top_matches[k].phrase],
            LAMBDA ph : ActionOf(ph) \in actions)

\* the text after the phrase when the text starts with it, else the text
AfterPhrase(text_segment, text_lower_segment, phrase) ==
  IF startswith(text_lower_segment, lower(phrase))
  THEN strip(DropN(text_segment, Len(phrase)))
  ELSE text_segment

\* lines 526-541: the move/rename heuristic, for the move_rename phrases
\* found in top_matches
MoveRenameHeuristic(text_segment, text_lower_segment, found, f) ==
  IF f.action_id \notin {"move_rename", "delete_file", "delete_directory"}
     /\ HasAnySub(text_lower_segment,
                  {<<"move", SP>>, <<"mv", SP>>, <<"rename", SP>>})
     /\ found # <<>>
     /\ Len(extract_relevant_entities(
              AfterPhrase(text_segment, text_lower_segment, found[1]))) >= 2
  THEN [f EXCEPT !.action_id = "move_rename", !.matched_phrase = found[1]]
  ELSE f

\* a delete heuristic that does not look for a phrase in top_matches
DeleteHeuristic_without_candidates(text_lower_segment, files, dirs, f) ==
  IF f.action_id = "move_rename"
     /\ HasAnySub(text_lower_segment,
                  {<<"remove", SP>>, <<"delete", SP>>, <<"rm", SP>>})
  THEN [f EXCEPT !.action_id = "delete_file", !.matched_phrase = <<"rm">>]
  ELSE f

\* lines 542-558: the delete heuristic, for the delete_file and the
\* delete_directory phrases found in top_matches
DeleteHeuristic(text_lower_segment, files, dirs, f) ==
  IF f.action_id = "move_rename"
     /\ HasAnySub(text_lower_segment,
                  {<<"remove", SP>>, <<"delete", SP>>, <<"rm", SP>>})
  THEN IF files # <<>> /\ dirs # <<>>
       THEN IF HasAnySub(text_lower_segment, {<<"folder">>, <<"directory">>})
            THEN [f EXCEPT !.action_id = "delete_directory",
                           !.matched_phrase = dirs[1]]
            ELSE [f EXCEPT !.action_id = "delete_file",
                           !.matched_phrase = files[1]]
       ELSE IF files # <<>>
       THEN [f EXCEPT !.action_id = "delete_file",
                      !.matched_phrase = files[1]]
       ELSE IF dirs # <<>>
       THEN [f EXCEPT !.action_id = "delete_directory",
                      !.matched_phrase = dirs[1]]
       ELSE f
  ELSE f

\* lines 521-558: the action of the best candidate, then the two heuristics
Heuristics(text_segment, text_lower_segment, top_matches, best) ==
  DeleteHeuristic(
    text_lower_segment,
    PhrasesOf(top_matches, {"delete_file"}),
    PhrasesOf(top_matches, {"delete_directory"}),
    MoveRenameHeuristic(
      text_segment, text_lower_segment,
      PhrasesOf(top_matches, {"move_rename"}),
      [action_id |-> best.action, matched_phrase |-> best.phrase,
       suggestion_action_id |-> "", suggestion_phrase |-> <<>>]))

\* a matcher that confirms the best phrase whatever its score
FuzzyIntent_confirm_top(text_segment, text_lower_segment, top_matches) ==
  IF top_matches = <<>>
  THEN [action_id |-> "", matched_phrase |-> <<>>,
        suggestion_action_id |-> "", suggestion_phrase |-> <<>>]
  ELSE [action_id |-> ActionOf(top_matches[1].phrase),
        matched_phrase |-> top_matches[1].phrase,
        suggestion_action_id |-> "", suggestion_phrase |-> <<>>]

\* lines 454-561: the fuzzy match
FuzzyIntent(text_segment, text_lower_segment, top_matches) ==
  LET best == BestExecute(top_matches, 1, text_lower_segment, NoCandidate)
  IN IF top_matches = <<>> THEN [action_id |-> "", matched_phrase |-> <<>>,
                                 suggestion_action_id |-> "",
                                 suggestion_phrase |-> <<>>]
     ELSE IF best # NoCandidate
     THEN Heuristics(text_segment, text_lower_segment, top_matches, best)
     ELSE [action_id |-> "", matched_phrase |-> <<>>,
           suggestion_action_id |-> ActionOf(top_matches[1].phrase),
           suggestion_phrase |-> top_matches[1].phrase]

\* ------------------------------------------------------------------------
\* Argument Refiner (_parse_single_command_segment, lines 563-854)
\* ------------------------------------------------------------------------
\* re.search(r"(\w+\.\w+)", s)
filename_pattern(s) ==
  \E i \in 1..Len(s) : s[i] \in {"a.txt", "b.txt", "a-r.txt"}

\* the test of lines 604-607
filename_like(s) ==
  /\ filename_pattern(s) \/ (HasDot(s) /\ s[1] \notin {".", ".."})
  /\ s \notin {<<".">>, <<"..">>}

\* s.strip("'\"")
RECURSIVE StripQuotes(_)
StripQuotes(s) ==
  IF s = <<>> THEN s
  ELSE IF Head(s) = DQ THEN StripQuotes(Tail(s))
  ELSE IF s[Len(s)] = DQ THEN StripQuotes(SubSeq(s, 1, Len(s) - 1))
  ELSE s

\* fuzz.ratio(a, b) > 70: 100 for equal strings; two different strings of
\* the vocabulary and of the words compared with it score at most 67
ratio_above_70(a, b) == a = b

\* lines 657-674, list_files
RefineListFiles(c) ==
  LET noisy ==
        /\ Len(c.args) <= 2
        /\ \A k \in 1..Len(c.args) :
             \/ ratio_above_70(lower(c.args[k]), <<"ls">>)
             \/ ratio_above_70(lower(c.args[k]), <<"list">>)
             \/ lower(c.args[k]) \in {<<"files">>, <<"file">>,
                                      <<"directory">>, <<"directories">>}
        /\ ~\E k \in 1..Len(c.args) :
              LooksPathLike(c.args[k]) \/ StartsDash(c.args[k])
      hinglish ==
        HasAnySub(c.text_lower, {<<"kya", SP, "kya">>, <<"cheezein">>,
                                 <<"dikhao">>, <<"batao">>})
  IN IF c.matched_direct /\ lower(c.matched_phrase) = <<"ls">>
        /\ c.initial_args # <<>>
     THEN LET sp == shlex_split(c.initial_args)
          IN ActionResult(c.action_id,
                          IF sp.ok THEN sp.parts ELSE <<c.initial_args>>)
     ELSE IF c.args = <<>> THEN ActionResult(c.action_id, <<>>)
     ELSE IF noisy THEN ActionResult(c.action_id, <<>>)
     ELSE IF hinglish /\ ~\E k \in 1..Len(c.args) :
                            HasDot(c.args[k]) \/ HasSlash(c.args[k])
     THEN ActionResult(c.action_id, <<>>)
     ELSE ActionResult(c.action_id, c.args)

MissingArgument(action_id) ==
  ErrorResult(<<"Missing argument for ", action_id>>)

\* lines 681-694, the single-target actions
RefineSingleTarget(c) ==
  LET selected_arg == select_primary_argument(c.args)
  IN IF c.args # <<>> /\ c.action_id \in {"display_file", "count_lines"}
        /\ c.args_text = <<>>
     THEN ActionResult(c.action_id, c.args)
     ELSE IF selected_arg # <<>>
     THEN ActionResult(c.action_id, <<selected_arg>>)
     ELSE IF c.args # <<>> /\ c.action_id = "display_file"
             /\ Len(c.args) = 1
             /\ ~\E kw \in COMMAND_VERBS \cup
                           (ENTITY_IGNORE_WORDS \ ARG_SPLIT_KEYWORDS) :
                   HasSub(c.args[1], kw)
     THEN ActionResult(c.action_id, c.args)
     ELSE IF c.matched_direct /\ c.initial_args = <<>>
             /\ c.action_id # "make_executable"
     THEN MissingArgument(c.action_id)
     ELSE IF c.args = <<>> /\ c.action_id # "make_executable"
     THEN MissingArgument(c.action_id)
     ELSE ActionResult(c.action_id, <<>>)

\* select_primary_argument(args) or " ".join(args)
primary_or_joined(args) ==
  IF select_primary_argument(args) # <<>> THEN select_primary_argument(args)
  ELSE JoinSP(args)

\* lines 697-727, display_file_head and display_file_tail.  No token of the
\* vocabulary is -n or a '-' followed by a number.  shlex.split is called
\* here outside any try block.
RefineHeadTail(c) ==
  LET sel == select_primary_argument(c.args)
      sp == shlex_split(c.initial_args)
  IN IF c.args # <<>> /\ c.args_text = <<>>
     THEN IF Len(c.args) = 2 /\ isdigit(c.args[1])
          THEN ActionResult(c.action_id, c.args)
          ELSE IF Len(c.args) = 1
          THEN IF isdigit(c.args[1])
               THEN ErrorResult(<<"Missing filename for ", c.action_id,
                                  " with lines ">> \o c.args[1])
               ELSE ActionResult(c.action_id, c.args)
          ELSE ErrorResult(<<"Incorrect arguments for ", c.action_id,
                             " from special phrase">>)
     ELSE IF Len(c.args) >= 2 /\ isdigit(c.args[1])
     THEN ActionResult(c.action_id,
                       <<c.args[1], primary_or_joined(Tail(c.args))>>)
     ELSE IF c.args # <<>>
     THEN ActionResult(c.action_id,
                       <<IF sel # <<>> THEN sel ELSE c.args[1]>>)
     ELSE IF c.matched_direct /\ c.initial_args # <<>>
     THEN IF ~sp.ok THEN Raise("ValueError")
          ELSE IF sp.parts = <<>>
          THEN ErrorResult(<<"Missing arguments for ", c.action_id>>)
          ELSE ActionResult(c.action_id, sp.parts)
     ELSE ErrorResult(<<"Missing filename for ", c.action_id>>)

\* lines 730-763, grep
RefineGrep(c) ==
  LET quoted == {k \in 1..Len(c.args) : LooksQuoted(c.args[k])}
      plain == {k \in 1..Len(c.args) :
                  ~LooksPathLike(c.args[k]) /\ ~StartsDash(c.args[k])}
      pick == IF quoted # {}
              THEN CHOOSE k \in quoted : \A j \in quoted : k <= j
              ELSE IF plain # {}
              THEN CHOOSE k \in plain : \A j \in plain : k <= j
              ELSE 1
      pattern_cand == c.args[pick]
      remaining == SubSeq(c.args, 1, pick - 1)
                   \o SubSeq(c.args, pick + 1, Len(c.args))
      file_cand == IF remaining # <<>> THEN JoinSP(remaining)
                   ELSE IF pattern_cand # <<>> /\ ~c.is_part_of_pipe
                   THEN <<".">>
                   ELSE <<>>
  IN IF c.matched_direct /\ lower(c.matched_phrase) = <<"grep", SP>>
     THEN LET sp == shlex_split(c.initial_args)
          IN ActionResult(c.action_id,
                          IF c.initial_args = <<>> THEN <<>>
                          ELSE IF sp.ok THEN sp.parts
                          ELSE <<c.initial_args>>)
     ELSE IF c.args # <<>>
     THEN IF c.args_text = <<>>
          THEN ActionResult(c.action_id,
                 [k \in 1..Len(c.args) |-> StripQuotes(c.args[k])])
          ELSE IF pattern_cand # <<>> /\ file_cand # <<>>
          THEN ActionResult(c.action_id, <<StripQuotes(pattern_cand),
                                           StripQuotes(file_cand)>>)
          ELSE IF pattern_cand # <<>>
          THEN ActionResult(c.action_id, <<StripQuotes(pattern_cand)>>)
          ELSE IF ~c.is_part_of_pipe
          THEN ErrorResult(<<"Grep pattern required">>)
          ELSE ActionResult(c.action_id, <<>>)
     ELSE IF ~c.is_part_of_pipe
     THEN ErrorResult(<<"Grep pattern and/or arguments required">>)
     ELSE ActionResult(c.action_id, <<>>)

\* the phrases of lines 640 and 642 the vocabulary spells
go_up_phrases == {<<"go", SP, "back">>, <<"cd", SP, "..">>}
home_phrases ==
  {<<"cd", SP, "~">>, <<"change", SP, "to", SP, "home", SP, "directory">>}

\* lines 646-647: the names of the home directory; os.path.expanduser("~")
\* is the home directory of the user who runs the program
home_path_variants == {<<"home">>, <<"~">>}
actual_home_for_comp == <<"/root">>

\* lines 645-650: the selected target
CanonicalTarget(selected_arg) ==
  IF lower(selected_arg) \in home_path_variants
     \/ selected_arg = actual_home_for_comp
  THEN <<"~">>
  ELSE selected_arg

\* a refiner that hands every selected target on as it is
RefineChangeDirectory_no_canonical(c) ==
  IF lower(c.matched_phrase) \in go_up_phrases
  THEN ActionResult(c.action_id, << <<"..">> >>)
  ELSE IF lower(c.matched_phrase) \in home_phrases
  THEN ActionResult(c.action_id, << <<"~">> >>)
  ELSE IF select_primary_argument(c.args) # <<>>
  THEN ActionResult(c.action_id, <<select_primary_argument(c.args)>>)
  ELSE IF c.args = <<>> /\ ~(c.matched_direct /\ c.initial_args = <<>>)
  THEN ActionResult(c.action_id, << <<"~">> >>)
  ELSE ActionResult(c.action_id, <<>>)

\* lines 639-653, change_directory
RefineChangeDirectory(c) ==
  IF lower(c.matched_phrase) \in go_up_phrases
  THEN ActionResult(c.action_id, << <<"..">> >>)
  ELSE IF lower(c.matched_phrase) \in home_phrases
  THEN ActionResult(c.action_id, << <<"~">> >>)
  ELSE IF select_primary_argument(c.args) # <<>>
  THEN ActionResult(c.action_id,
                    <<CanonicalTarget(select_primary_argument(c.args))>>)
  ELSE IF c.args = <<>> /\ ~(c.matched_direct /\ c.initial_args = <<>>)
  THEN ActionResult(c.action_id, << <<"~">> >>)
  ELSE ActionResult(c.action_id, <<>>)

NO_ARG_ACTIONS ==
  {"show_path", "whoami", "git_status", "git_init", "system_uptime",
   "network_interfaces", "env_variables"}

\* a refiner that hands the candidates on as they are
RefineNoArg_keep_args(c) == ActionResult(c.action_id, c.args)

\* lines 654-655, the actions without arguments
RefineNoArg(c) == ActionResult(c.action_id, <<>>)

\* lines 675-679, show_processes, disk_usage and memory_usage
RefineOptArg(c) ==
  IF c.matched_direct /\ c.initial_args # <<>>
  THEN IF shlex_split(c.initial_args).ok
       THEN ActionResult(c.action_id, shlex_split(c.initial_args).parts)
       ELSE ActionResult(c.action_id, <<c.initial_args>>)
  ELSE ActionResult(c.action_id, c.args)

\* re.match(r"^[0-7]{3,4}$|^[ugoa]*[-+=][rwxXstugo]*$", s): of the
\* vocabulary, the strings of three or four digits
is_permission(s) == isdigit(s) /\ StrLen(s) \in {3, 4}

NonEmpty(parts) == SelectSeq(parts, LAMBDA x : x # <<>>)

\* lines 767-773: the candidates of move_rename, copy_file and chmod
candidate_args(c) ==
  IF c.matched_direct /\ c.initial_args # <<>>
     /\ shlex_split(c.initial_args).ok
     /\ Len(NonEmpty(shlex_split(c.initial_args).parts))
          >= (IF c.action_id = "chmod" THEN 1 ELSE 2)
  THEN NonEmpty(shlex_split(c.initial_args).parts)
  ELSE c.args

\* the test of lines 777-779
keeps_candidate(arg, action_id) ==
  \/ lower(arg) \notin ((ENTITY_IGNORE_WORDS \ ARG_SPLIT_KEYWORDS) \ {<<".">>})
  \/ HasDot(arg) \/ HasDigit(arg) \/ HasSlash(arg)
  \/ (action_id = "chmod" /\ is_permission(arg))

OrAll(kept, all) == IF kept = <<>> THEN all ELSE kept

\* lines 775-781
clean_cand_args(candidates, action_id) ==
  OrAll(SelectSeq(candidates, LAMBDA arg : keeps_candidate(arg, action_id)),
        candidates)

MissingArguments(action_id) ==
  ErrorResult(<<"Missing arguments for ", action_id>>)

\* lines 798-799
PermAndTarget(action_id, perm_arg, target_arg) ==
  IF perm_arg # <<>> /\ target_arg # <<>>
  THEN ActionResult(action_id, <<perm_arg, target_arg>>)
  ELSE MissingArguments(action_id)

\* lines 783-800, chmod
RefineChmod(action_id, clean) ==
  IF Len(clean) >= 2
  THEN IF is_permission(clean[1])
       THEN PermAndTarget(action_id, clean[1], primary_or_joined(Tail(clean)))
       ELSE IF is_permission(clean[2])
       THEN PermAndTarget(action_id, clean[2], clean[1])
       ELSE PermAndTarget(action_id, clean[1], JoinSP(Tail(clean)))
  ELSE MissingArguments(action_id)

NoSplit == [found |-> FALSE, source |-> <<>>, destination |-> <<>>]

\* lines 806-812: the loop that looks for a split keyword, from the last but
\* one candidate down to the first
RECURSIVE SplitAtKeyword(_, _)
SplitAtKeyword(clean, i) ==
  IF i < 1 THEN NoSplit
  ELSE IF lower(clean[i]) \in ARG_SPLIT_KEYWORDS
          /\ i > 1 /\ i < Len(clean)
          /\ primary_or_joined(SubSeq(clean, 1, i - 1)) # <<>>
          /\ primary_or_joined(SubSeq(clean, i + 1, Len(clean))) # <<>>
  THEN [found |-> TRUE,
        source |-> primary_or_joined(SubSeq(clean, 1, i - 1)),
        destination |-> primary_or_joined(SubSeq(clean, i + 1, Len(clean)))]
  ELSE SplitAtKeyword(clean, i - 1)

\* a split that takes the first and the last candidate
FirstAndNext_first_and_last(clean, split) ==
  [found |-> FALSE, source |-> clean[1], destination |-> clean[Len(clean)]]

\* lines 813-819: no split keyword was found
FirstAndNext(clean, split) ==
  IF split.found THEN split
  ELSE [found |-> FALSE, source |-> clean[1], destination |-> clean[2]]

\* lines 821-823
SourceAndDestination(action_id, split) ==
  IF split.source # <<>> /\ split.destination # <<>>
  THEN ActionResult(action_id, <<split.source, split.destination>>)
  ELSE IF split.source # <<>>
  THEN ErrorResult(<<"Missing destination for ", action_id>>)
  ELSE ErrorResult(<<"Missing source/destination for ", action_id>>)

\* lines 802-825, move_rename and copy_file
RefineMoveCopy(action_id, clean) ==
  IF Len(clean) >= 2
  THEN SourceAndDestination(
         action_id,
         FirstAndNext(clean, SplitAtKeyword(clean, Len(clean) - 1)))
  ELSE IF Len(clean) = 1
  THEN ErrorResult(<<"Missing destination for ", action_id>>)
  ELSE MissingArguments(action_id)

\* lines 766-825
RefineSourceDestination(c) ==
  IF c.action_id = "chmod"
  THEN RefineChmod(c.action_id,
                   clean_cand_args(candidate_args(c), c.action_id))
  ELSE RefineMoveCopy(c.action_id,
                      clean_cand_args(candidate_args(c), c.action_id))

\* the matches of (?:-m|message)\s+(["'])(.+?)\1 in s: i is the place of
\* -m and q the place of the opening quote
msg_matches(s) ==
  {m \in (1..Len(s)) \X (1..Len(s)) :
     /\ s[m[1]] = "-m" /\ m[2] >= m[1] + 2
     /\ \A k \in (m[1] + 1)..(m[2] - 1) : IsSpace(s[k])
     /\ s[m[2]] = DQ
     /\ \E r \in (m[2] + 2)..Len(s) :
          s[r] = DQ /\ \A k \in (m[2] + 1)..(r - 1) : s[k] # NL}

\* group 2 of the match whose opening quote is at q
msg_group(s, q) ==
  SubSeq(s, q + 1,
         (CHOOSE r \in (q + 2)..Len(s) :
            s[r] = DQ /\ \A k \in (q + 2)..(r - 1) : s[k] # DQ) - 1)

\* re.search: group 2 of the leftmost match
msg_match(s) ==
  msg_group(s, (CHOOSE m \in msg_matches(s) :
                  \A n \in msg_matches(s) : m[1] <= n[1])[2])

\* the loop of lines 838-845 over the candidates
RECURSIVE commit_msg_parts(_, _)
commit_msg_parts(args, potential_msg_started) ==
  IF args = <<>> THEN <<>>
  ELSE IF potential_msg_started \/ LooksQuoted(Head(args))
          \/ lower(Head(args)) \notin
               (((ENTITY_IGNORE_WORDS \ ARG_SPLIT_KEYWORDS) \ COMMAND_VERBS)
                \ {<<"-m">>})
  THEN <<StripQuotes(Head(args))>> \o commit_msg_parts(Tail(args), TRUE)
  ELSE commit_msg_parts(Tail(args), FALSE)

\* lines 832-846
fallback_msg(c) ==
  IF c.matched_direct /\ c.initial_args # <<>>
  THEN StripQuotes(strip(c.initial_args))
  ELSE IF c.args # <<>>
  THEN JoinSP(OrAll(commit_msg_parts(c.args, FALSE), c.args))
  ELSE <<>>

\* lines 848-849
CommitWith(action_id, message) ==
  IF message # <<>> THEN ActionResult(action_id, << <<"-m">>, message >>)
  ELSE ErrorResult(<<"Commit message required">>)

\* lines 828-849, git_commit
RefineGitCommit(c) ==
  IF msg_matches(c.text_segment) # {}
  THEN ActionResult(c.action_id, << <<"-m">>, msg_match(c.text_segment) >>)
  ELSE CommitWith(c.action_id, fallback_msg(c))

\* lines 635-854: the branch of the action
RefineArgs(c) ==
  IF c.action_id = "change_directory" THEN RefineChangeDirectory(c)
  ELSE IF c.action_id \in NO_ARG_ACTIONS THEN RefineNoArg(c)
  ELSE IF c.action_id = "list_files" THEN RefineListFiles(c)
  ELSE IF c.action_id \in {"show_processes", "disk_usage", "memory_usage"}
  THEN RefineOptArg(c)
  ELSE IF c.action_id \in {"move_rename", "copy_file", "chmod"}
  THEN RefineSourceDestination(c)
  ELSE IF c.action_id = "git_commit" THEN RefineGitCommit(c)
  ELSE IF c.action_id \in {"make_directory", "create_file", "delete_file",
                           "delete_directory", "display_file",
                           "make_executable", "count_lines"}
  THEN RefineSingleTarget(c)
  ELSE IF c.action_id \in {"display_file_head", "display_file_tail"}
  THEN RefineHeadTail(c)
  ELSE IF c.action_id = "grep" THEN RefineGrep(c)
  ELSE ActionResult(c.action_id, c.args)

\* lines 614-633: no action was confirmed
Unconfirmed(c) ==
  LET sp == shlex_split(c.text_segment)
      allowed == sp.ok /\ sp.parts # <<>>
                 /\ lower(Head(sp.parts)) \in COMMON_SHELL_CMDS
  IN IF c.is_part_of_pipe /\ allowed
     THEN RawCommand(sp.parts, c.text_segment)
     ELSE IF c.suggestion_action_id # ""
     THEN SuggestSegment(c.suggestion_action_id, c.suggestion_phrase,
                         extract_relevant_entities(c.text_segment))
     ELSE UnrecognizedSegment(c.text_segment)

\* lines 569-589, special_arg_extraction_phrases: of its phrases the
\* vocabulary spells "find files containing", whose arguments are the text
\* after the phrase, stripped of quotes, and "."; empty arguments are dropped
FIND_FILES_CONTAINING == <<"find", SP, "files", SP, "containing">>

find_files_containing_args(txt) ==
  NonEmpty(<<strip(StripQuotes(strip(DropN(txt, Len(FIND_FILES_CONTAINING))))),
             <<".">>>>)

\* lines 563-612: the text the arguments are extracted from, the extraction,
\* and the re-classification of list_files with a file name
Extracted(c) ==
  LET special == c.action_id # "" /\ ~c.matched_direct
                 /\ c.matched_phrase = FIND_FILES_CONTAINING
      args_text ==
        IF c.action_id = "" THEN c.text_segment
        ELSE IF c.matched_direct THEN c.initial_args
        ELSE IF special THEN <<>>
        ELSE IF c.matched_phrase # <<>>
                /\ startswith(c.text_lower, lower(c.matched_phrase))
        THEN strip(DropN(c.text_segment, Len(c.matched_phrase)))
        ELSE c.text_segment
      args == IF special THEN find_files_containing_args(c.text_segment)
              ELSE extract_relevant_entities(args_text)
      primary == select_primary_argument(
                   extract_relevant_entities(c.text_segment))
  IN IF c.action_id = "list_files" /\ primary # <<>> /\ filename_like(primary)
     THEN [c EXCEPT !.action_id = "display_file",
                    !.matched_phrase = <<"display", SP, "file">>,
                    !.suggestion_action_id = "", !.suggestion_phrase = <<>>,
                    !.matched_direct = FALSE,
                    !.args = <<primary>>, !.args_text = <<>>]
     ELSE [c EXCEPT !.args = args, !.args_text = args_text]

\* lines 614-854: c holds the action, or the suggestion, and the arguments
Conclude(c) == IF c.action_id = "" THEN Unconfirmed(c) ELSE RefineArgs(c)

\* the locals of the function at line 563: p is what lines 394-451 found,
\* f what lines 454-561 made of it
Locals(text_segment, text_lower_segment, is_part_of_pipe, p, f) ==
  [text_segment |-> text_segment,
   text_lower |-> text_lower_segment,
   is_part_of_pipe |-> is_part_of_pipe,
   action_id |-> f.action_id,
   matched_phrase |-> f.matched_phrase,
   matched_direct |-> p.matched_direct,
   initial_args |-> p.initial_args,
   suggestion_action_id |-> f.suggestion_action_id,
   suggestion_phrase |-> f.suggestion_phrase,
   args |-> <<>>, args_text |-> <<>>]

\* a matcher that forgets the one-word keyword of lines 436-439
Intent_without_keyword(text_segment, text_lower_segment, top_matches, p) ==
  IF ~p.matched_direct
  THEN FuzzyIntent(text_segment, text_lower_segment, top_matches)
  ELSE [action_id |-> p.action_id,
        matched_phrase |-> p.matched_phrase,
        suggestion_action_id |-> "", suggestion_phrase |-> <<>>]

\* line 454: the fuzzy match runs when nothing matched before
Intent(text_segment, text_lower_segment, top_matches, p) ==
  IF ~p.matched_direct /\ p.action_id = ""
  THEN FuzzyIntent(text_segment, text_lower_segment, top_matches)
  ELSE [action_id |-> p.action_id,
        matched_phrase |-> p.matched_phrase,
        suggestion_action_id |-> "", suggestion_phrase |-> <<>>]

\* lines 454-854: p is what the direct commands and lines 425-451 left
AfterPreemptive(text_segment, text_lower_segment, is_part_of_pipe, top_matches, p) ==
  IF p.returns THEN p.value
  ELSE Conclude(Extracted(
         Locals(text_segment, text_lower_segment, is_part_of_pipe, p,
                Intent(text_segment, text_lower_segment, top_matches, p))))

\* line 425: lines 425-451 run when no direct command matched
DirectOrPreemptive(text_segment, text_lower_segment, is_part_of_pipe, top_matches, d) ==
  IF d.action_id = "" /\ ~d.returns
  THEN Preemptive(text_segment, text_lower_segment, is_part_of_pipe,
                  top_matches)
  ELSE d

\* lines 387-854
Segment(text_segment, text_lower_segment, is_part_of_pipe, top_matches) ==
  IF text_lower_segment = <<>> THEN NoneResult
  ELSE AfterPreemptive(
         text_segment, text_lower_segment, is_part_of_pipe, top_matches,
         DirectOrPreemptive(
           text_segment, text_lower_segment, is_part_of_pipe, top_matches,
           DirectScan(text_segment, text_lower_segment, 1)))

_parse_single_command_segment(text_segment, is_part_of_pipe, top_matches) ==
  Segment(text_segment, strip(lower(text_segment)), is_part_of_pipe,
          top_matches)

\* ------------------------------------------------------------------------
\* parse_input
\* ------------------------------------------------------------------------
\* re.search(r"grep\s+.*?([\"'])(.+?[><].*?)\1", text, re.IGNORECASE)
grep_match(s) ==
  \E g \in 1..Len(s) :
    /\ lower(s)[g] = "grep"
    /\ g < Len(s) /\ IsSpace(s[g + 1])
    /\ \E q \in (g + 2)..Len(s) :
         /\ s[q] = DQ
         /\ \E r \in (q + 2)..Len(s) :
              /\ s[r] \in REDIRECTION_CHARS
              /\ \E c \in (r + 1)..Len(s) : s[c] = DQ

\* lines 860-866: the line is handed to the shell as it is
is_raw_redirection(original_text) ==
  /\ \E ch \in REDIRECTION_CHARS : HasTok(original_text, ch)
  /\ ~(HasTok(lower(original_text), "grep") /\ grep_match(original_text))

PipeError(segment_text, rest) ==
  ErrorResult(<<"Error in pipe: '">> \o segment_text \o <<"' - ">> \o rest)

\* lines 894-901: an unrecognized segment is split by shlex, sp
PipeUnrecognized(segment_text, sp) ==
  IF ~sp.ok
  THEN [done |-> TRUE,
        value |-> PipeError(segment_text, <<"Unrecognized & shlex failed">>)]
  ELSE IF sp.parts = <<>>
  THEN [done |-> TRUE,
        value |-> PipeError(segment_text,
                            <<"Unrecognized & could not split">>)]
  ELSE [done |-> FALSE, value |-> RawCommand(sp.parts, segment_text)]

\* lines 893-913 for one segment whose result is r: done is TRUE when
\* parse_input returns value at this segment, else value is the entry
\* appended to parsed_commands_list
PipeEntry(segment_text, r) ==
     IF ~r.isNone /\ r.action = "unrecognized_segment"
     THEN PipeUnrecognized(segment_text, shlex_split(segment_text))
     ELSE IF r.isNone
     THEN [done |-> TRUE,
           value |-> PipeError(segment_text, <<"Unknown error">>)]
     ELSE IF r.action = "error"
     THEN [done |-> TRUE, value |-> PipeError(segment_text, r.message)]
     ELSE IF r.type = "raw_command" THEN [done |-> FALSE, value |-> r]
     ELSE IF r.type = "raw_shell_string"
     THEN [done |-> TRUE,
           value |-> ErrorResult(
             <<"Error in pipe: Unexpected raw_shell_string type for segment '">>
             \o segment_text \o <<"'">>)]
     ELSE [done |-> FALSE, value |-> ActionResult(r.action, r.args)]

\* a loop body without the test of lines 891-892
PipeResult_without_ambiguity_test(segment_text, r) ==
  IF r.raised # "" THEN [done |-> TRUE, value |-> r]
  ELSE PipeEntry(segment_text, r)

\* lines 891-913 for one segment whose result is r
PipeResult(segment_text, r) ==
  IF r.raised # "" THEN [done |-> TRUE, value |-> r]
  ELSE IF ~r.isNone /\ r.action = "suggest_segment"
  THEN [done |-> TRUE,
        value |-> ErrorResult(<<"Ambiguous command '">>
                              \o r.suggestion_phrase
                              \o <<"' in pipe: '">> \o segment_text
                              \o <<"'">>)]
  ELSE PipeEntry(segment_text, r)

\* lines 890-913: the body of the for loop for one segment
PipeSegment(segment_text, top_matches) ==
  PipeResult(segment_text,
             _parse_single_command_segment(segment_text, TRUE, top_matches))

PipedCommands(parsed_commands_list) ==
  [Blank EXCEPT !.keys = {"type", "commands"}, !.type = "piped_commands",
                !.commands = parsed_commands_list]

\* the for loop of lines 889-913
RECURSIVE PipeLoop(_, _, _, _)

\* a pass that puts the entry in front of the list
PipeStep_prepend(segments, scores, i, parsed_commands_list, s) ==
  IF s.done THEN s.value
  ELSE PipeLoop(segments, scores, i + 1, <<s.value>> \o parsed_commands_list)

\* one pass of the loop: s is what lines 890-913 made of segments[i]
PipeStep(segments, scores, i, parsed_commands_list, s) ==
  IF s.done THEN s.value
  ELSE PipeLoop(segments, scores, i + 1, Append(parsed_commands_list, s.value))

PipeLoop(segments, scores, i, parsed_commands_list) ==
  IF i > Len(segments)
  THEN IF parsed_commands_list # <<>>
       THEN PipedCommands(parsed_commands_list)
       ELSE ErrorResult(<<"Failed to parse piped command">>)
  ELSE PipeStep(segments, scores, i, parsed_commands_list,
                PipeSegment(segments[i], scores[i]))

\* lines 918-926: the line is one command
SingleResult(single_result) ==
  IF single_result.raised # "" \/ single_result.isNone THEN single_result
  ELSE IF single_result.action = "suggest_segment"
  THEN [single_result EXCEPT !.action = "suggest"]
  ELSE IF single_result.action = "unrecognized_segment"
  THEN [Blank EXCEPT !.keys = {"action"}, !.action = "unrecognized"]
  ELSE single_result

SingleCommand(original_text, top_matches) ==
  SingleResult(
    _parse_single_command_segment(original_text, FALSE, top_matches))

\* the body of the try block of parse_input (lines 859-926); scores[i] is
\* what the fuzzy scorer answers for the i-th segment
PipeOrSingle(original_text, segments, scores) ==
  IF Len(segments) > 1
  THEN PipeLoop(segments, scores, 1, <<>>)
  ELSE SingleCommand(original_text, scores[1])

TryBody(original_text, scores) ==
  IF is_raw_redirection(original_text)
  THEN RawShellString(original_text)
  ELSE PipeOrSingle(original_text, pipe_segments(original_text), scores)

parse_input_try(text, scores) == TryBody(strip(text), scores)

\* parse_input without its except clause: a fault leaves the function
parse_input_uncaught(text, scores) == parse_input_try(text, scores)

\* parse_input: the try block and its except clause (lines 927-930)
Caught(r) ==
  IF r.raised # ""
  THEN ErrorResult(<<"Internal parser error: ", r.raised>>)
  ELSE r

parse_input(text, scores) == Caught(parse_input_try(text, scores))

\* ------------------------------------------------------------------------
\* The fuzzy scorer (rapidfuzz process.extract with scorer=WRatio,
\* score_cutoff=FUZZY_MATCH_THRESHOLD_SUGGEST, limit=5): what it answers for
\* a text is not computed here; every answer of the right shape is allowed.
\* An answer lists at most five phrases of ACTION_KEYWORDS with their
\* scores, best first, all at or above the suggestion threshold.
\* ------------------------------------------------------------------------
MAKE_DIRECTORY == <<"make", SP, "directory">>
LIST_FILES == <<"list", SP, "files">>

Match(phrase, score) == [phrase |-> phrase, score |-> score]

top_matches_answers ==
  {<<>>,
   <<Match(MAKE_DIRECTORY, 60)>>,
   <<Match(MAKE_DIRECTORY, 84)>>,
   <<Match(MAKE_DIRECTORY, 85)>>,
   <<Match(LIST_FILES, 89), Match(MAKE_DIRECTORY, 60)>>,
   <<Match(LIST_FILES, 90)>>,
   <<Match(MAKE_DIRECTORY, 100), Match(LIST_FILES, 84)>>,
   <<Match(LIST_FILES, 85), Match(MAKE_DIRECTORY, 85)>>}

top_matches_few ==
  {<<>>, <<Match(MAKE_DIRECTORY, 84)>>, <<Match(MAKE_DIRECTORY, 85)>>,
   <<Match(LIST_FILES, 90)>>}

\* the scorer's answers for a text that is a phrase of the lexicon: WRatio
\* gives 100 to the phrase itself and less to every other phrase
exact_answers(phrase) ==
  {<<Match(phrase, 100)>>,
   <<Match(phrase, 100), Match(<<"move">>, 90)>>,
   <<Match(phrase, 100), Match(<<"list", SP, "files">>, 95),
     Match(<<"cat">>, 60)>>}

\* the scorer's answers for the other texts
top_matches_refine ==
  {<<>>,
   <<Match(<<"move">>, 90)>>,
   <<Match(<<"pwd">>, 90)>>,
   <<Match(<<"make", SP, "executable">>, 90)>>,
   <<Match(<<"commit", SP, "changes">>, 90)>>,
   <<Match(<<"list", SP, "files">>, 90), Match(<<"move">>, 70)>>,
   <<Match(<<"cat">>, 90), Match(<<"move">>, 85), Match(<<"rm">>, 60)>>,
   <<Match(<<"make", SP, "directory">>, 84)>>,
   <<Match(<<"move", SP, "to">>, 86)>>,
   <<Match(<<"move">>, 90), Match(<<"rm">>, 70)>>,
   <<Match(<<"go", SP, "back">>, 90)>>,
   <<Match(<<"cd", SP, "..">>, 90)>>,
   <<Match(<<"cd", SP, "~">>, 90)>>,
   <<Match(<<"change", SP, "directory", SP, "to">>, 90),
     Match(<<"change", SP, "directory">>, 90)>>,
   <<Match(<<"list", SP, "files">>, 90), Match(<<"pwd">>, 90),
     Match(<<"cat">>, 90), Match(<<"rm">>, 85)>>,
   <<Match(<<"grep">>, 90)>>}

PhrasesEqual(text_lower_segment) ==
  {e.phrase : e \in {e \in ACTION_KEYWORDS :
                       lower(e.phrase) = text_lower_segment}}

\* the scorer's answers for one text
answers_of(phrases) ==
  IF phrases = {} THEN top_matches_refine
  ELSE UNION {exact_answers(phrase) : phrase \in phrases}

\* a text that goes on after "find files containing" is scored 90 against
\* that phrase (the phrase is a part of the text); the phrase is answered
\* for no other text
containing_answers ==
  {<<Match(<<"find", SP, "files", SP, "containing">>, 90)>>,
   <<Match(<<"find", SP, "files", SP, "containing">>, 90),
     Match(<<"list", SP, "files">>, 86), Match(<<"grep">>, 60)>>}

scorer_answers(text) ==
  IF PhrasesEqual(strip(lower(text))) = {}
     /\ startswith(strip(lower(text)), <<"find", SP, "files", SP, "containing">>)
  THEN containing_answers
  ELSE answers_of(PhrasesEqual(strip(lower(text))))

\* the scorer is called for a segment only when no direct command, no
\* allow-listed pipe command and no one-word keyword settled it before
scorer_called(text_segment, is_part_of_pipe) ==
  LET text_lower_segment == strip(lower(text_segment))
      d == DirectScan(text_segment, text_lower_segment, 1)
      p == Preemptive(text_segment, text_lower_segment, is_part_of_pipe, <<>>)
  IN /\ text_lower_segment # <<>>
     /\ d.action_id = "" /\ ~d.returns
     /\ p.action_id = ""
     /\ ~(p.returns /\ p.value.type = "raw_command")

answers_for(text_segment, is_part_of_pipe, answers) ==
  IF scorer_called(text_segment, is_part_of_pipe) THEN answers ELSE {<<>>}

\* the segments parse_input hands to _parse_single_command_segment
segments_of(text) ==
  LET original_text == strip(text)
      segments == pipe_segments(original_text)
  IN IF is_raw_redirection(original_text) THEN <<>>
     ELSE IF Len(segments) > 1 THEN segments
     ELSE <<original_text>>

RECURSIVE scores_for(_, _, _)
scores_for(segments, is_part_of_pipe, answers) ==
  IF segments = <<>> THEN {<<>>}
  ELSE {<<h>> \o t :
          h \in answers_for(Head(segments), is_part_of_pipe, answers),
          t \in scores_for(Tail(segments), is_part_of_pipe, answers)}

\* the scorer's answers for the segments of one line
line_scores(text, answers) ==
  LET segments == segments_of(text)
  IN IF segments = <<>> THEN {<< <<>> >>}
     ELSE scores_for(segments, Len(segments) > 1, answers)

\* ------------------------------------------------------------------------
\* Command executor (command_executor/executor.py)
\* ------------------------------------------------------------------------
SQ == "'"

\* platform.system()
OS_NAMES == {"Linux", "Darwin", "Windows", "FreeBSD"}

\* None where a command list is expected
NoCommand == <<>>

\* a list of one-word strings
Words(s) == [i \in 1..Len(s) |-> <<s[i]>>]

\* the entries of COMMAND_MAP for the actions of the lexicon
COMMAND_MAP ==
  [list_files |-> [Linux |-> Words(<<"ls">>), Windows |-> Words(<<"dir">>)],
   show_path |-> [Linux |-> Words(<<"pwd">>), Windows |-> Words(<<"cd">>)],
   change_directory |->
     [Linux |-> Words(<<"cd">>), Windows |-> Words(<<"cd">>)],
   make_directory |->
     [Linux |-> Words(<<"mkdir">>), Windows |-> Words(<<"md">>)],
   create_file |->
     [Linux |-> Words(<<"touch">>), Windows |-> Words(<<"type", "NUL", ">">>)],
   delete_file |-> [Linux |-> Words(<<"rm">>), Windows |-> Words(<<"del">>)],
   delete_directory |->
     [Linux |-> Words(<<"rm", "-r">>), Windows |-> Words(<<"rd", "/s", "/q">>)],
   display_file |->
     [Linux |-> Words(<<"cat">>), Windows |-> Words(<<"type">>)],
   move_rename |-> [Linux |-> Words(<<"mv">>), Windows |-> Words(<<"move">>)],
   git_commit |-> [default |-> Words(<<"git", "commit">>)],
   grep |-> [default |-> Words(<<"grep">>)],
   chmod |-> [default |-> Words(<<"chmod">>)],
   make_executable |-> [default |-> Words(<<"chmod", "+x">>)],
   count_lines |->
     [Linux |-> Words(<<"wc">>), Darwin |-> Words(<<"wc">>),
      Windows |-> NoCommand],
   display_file_head |->
     [Linux |-> Words(<<"head">>), Darwin |-> Words(<<"head">>),
      Windows |-> NoCommand]]

\* dict.get(key) with None for a missing key
Get(mapping, key) ==
  IF key \in DOMAIN mapping THEN mapping[key] ELSE NoCommand

\* lines 70-81: the command of the running system, of Linux on Darwin, or
\* the default
base_cmd_list_orig(action, os_name) ==
  IF action \notin DOMAIN COMMAND_MAP THEN NoCommand
  ELSE IF Get(COMMAND_MAP[action], os_name) # NoCommand
  THEN Get(COMMAND_MAP[action], os_name)
  ELSE IF os_name = "Darwin" /\ Get(COMMAND_MAP[action], "Linux") # NoCommand
  THEN Get(COMMAND_MAP[action], "Linux")
  ELSE Get(COMMAND_MAP[action], "default")

\* os.path.expanduser("~")
HOME_DIRECTORY == << <<"root">> >>

\* the working directory after os.chdir(os.path.expanduser(target_dir)), as
\* the list of the directory names from the root
Chdir(wd, target_dir) ==
  IF target_dir = <<"~">> \/ target_dir = actual_home_for_comp
  THEN HOME_DIRECTORY
  ELSE IF target_dir = <<"..">>
  THEN SubSeq(wd, 1, Len(wd) - 1)
  ELSE IF target_dir = <<".">> THEN wd
  ELSE Append(wd, target_dir)

\* lines 112-146: head and tail with a leading number take it as -n
head_tail_command(base_cmd_list, args) ==
  IF args # <<>> /\ isdigit(args[1])
  THEN base_cmd_list \o << <<"-n">>, args[1] >>
       \o (IF Len(args) > 1 THEN << JoinSP(Tail(args)) >> ELSE <<>>)
  ELSE base_cmd_list \o (IF args # <<>> THEN << JoinSP(args) >> ELSE <<>>)

has_recursive_flag(command_list) ==
  \E i \in 1..Len(command_list) : command_list[i] \in {<<"-r">>, <<"-rf">>}

\* lines 88-172 for an action with a command list
full_cmd(action, base_cmd_list, args) ==
  IF action \in {"display_file_head", "display_file_tail"}
  THEN head_tail_command(base_cmd_list, args)
  ELSE IF action = "delete_directory" /\ base_cmd_list[1] = <<"rm">>
          /\ ~has_recursive_flag(base_cmd_list) /\ ~has_recursive_flag(args)
  THEN Append(base_cmd_list, <<"-r">>) \o args
  ELSE IF action = "count_lines" /\ ~(\E i \in 1..Len(base_cmd_list) :
                                        base_cmd_list[i] = <<"-l">>)
  THEN Append(base_cmd_list, <<"-l">>) \o args
  ELSE base_cmd_list \o args

PlatformCommand(kind, value, wd) == [kind |-> kind, value |-> value, cwd |-> wd]

\* get_platform_command (lines 44-172): the command list of the action, a
\* string for what Python handles itself, or None; existing holds the paths
\* that exist.  change_directory changes the working directory here.
get_platform_command(action, args, os_name, wd, existing) ==
  IF action = "change_directory"
  THEN IF args # <<>>
       THEN IF args[1] \in existing
            THEN PlatformCommand("str", "PYTHON_HANDLED_CHDIR_SUCCESS",
                                 Chdir(wd, args[1]))
            ELSE PlatformCommand("str", "PYTHON_HANDLED_CHDIR_FAIL", wd)
       ELSE PlatformCommand("str", "PYTHON_HANDLED_CHDIR_SUCCESS",
                            HOME_DIRECTORY)
  ELSE IF base_cmd_list_orig(action, os_name) = NoCommand
  THEN IF action \in {"display_file_head", "display_file_tail", "count_lines"}
          /\ os_name = "Windows"
       THEN PlatformCommand("str", "ACTION_UNSUPPORTED_ON_CMD", wd)
       ELSE PlatformCommand("None", "", wd)
  ELSE IF action = "create_file" /\ os_name = "Windows"
  THEN IF args = <<>> THEN PlatformCommand("None", "", wd)
       ELSE IF args[1] \in existing
       THEN PlatformCommand("str", "PYTHON_HANDLED_CREATE_FILE_EXISTS", wd)
       ELSE PlatformCommand("str", "PYTHON_HANDLED_CREATE_FILE_SUCCESS", wd)
  ELSE PlatformCommand("list",
         full_cmd(action, base_cmd_list_orig(action, os_name), args), wd)

\* shlex.quote: a string with a character outside [A-Za-z0-9_@%+=:,./-] is
\* put in single quotes
shlex_quote(s) ==
  IF s = <<>> THEN <<SQ, SQ>>
  ELSE IF \E i \in 1..Len(s) : s[i] \in {SP, NL, PIPE, GT, DQ, "~"}
  THEN <<SQ>> \o s \o <<SQ>>
  ELSE s

shlex_join(parts) == JoinSP([i \in 1..Len(parts) |-> shlex_quote(parts[i])])

\* " | ".join(command_segments_for_shell)
RECURSIVE JoinPipe(_)
JoinPipe(segments) ==
  IF segments = <<>> THEN <<>>
  ELSE IF Len(segments) = 1 THEN segments[1]
  ELSE segments[1] \o <<SP, PIPE, SP>> \o JoinPipe(Tail(segments))

\* what a call of execute_command leaves behind: the working directory, the
\* commands handed to subprocess.run, and the kind of its last message
Outcome(wd, ran, message) == [cwd |-> wd, ran |-> ran, message |-> message]

\* lines 207-242: the loop over the segments of a pipeline and the one
\* subprocess.run of the joined command
RECURSIVE PipedLoop(_, _, _, _, _, _)
RECURSIVE PipedSegment(_, _, _, _, _, _)
PipedLoop(commands, k, os_name, wd, existing, command_segments_for_shell) ==
  IF k > Len(commands)
  THEN IF command_segments_for_shell # <<>>
       THEN Outcome(wd, <<JoinPipe(command_segments_for_shell)>>,
                    "executing piped")
       ELSE Outcome(wd, <<>>, "")
  ELSE IF commands[k].type = "raw_command"
  THEN PipedLoop(commands, k + 1, os_name, wd, existing,
         Append(command_segments_for_shell,
                shlex_join(<<commands[k].command>> \o commands[k].args)))
  ELSE PipedSegment(commands, k, os_name, existing,
                    command_segments_for_shell,
                    get_platform_command(commands[k].action, commands[k].args,
                                         os_name, wd, existing))

\* lines 219-232 for the answer of get_platform_command
PipedSegment(commands, k, os_name, existing, segments, platform_cmd) ==
  IF platform_cmd.kind = "None"
  THEN Outcome(platform_cmd.cwd, <<>>, "unmappable")
  ELSE IF platform_cmd.kind = "str"
  THEN IF platform_cmd.value = "ACTION_UNSUPPORTED_ON_CMD"
       THEN Outcome(platform_cmd.cwd, <<>>, "unsupported")
       ELSE Outcome(platform_cmd.cwd, <<>>, "python-internal")
  ELSE IF platform_cmd.value = <<>>
  THEN Outcome(platform_cmd.cwd, <<>>, "no command parts")
  ELSE PipedLoop(commands, k + 1, os_name, platform_cmd.cwd, existing,
                 Append(segments, shlex_join(platform_cmd.value)))

\* lines 244-289: one action
SingleAction(platform_cmd) ==
  IF platform_cmd.kind = "None"
  THEN Outcome(platform_cmd.cwd, <<>>, "could not be executed")
  ELSE IF platform_cmd.kind = "str"
  THEN Outcome(platform_cmd.cwd, <<>>, platform_cmd.value)
  ELSE Outcome(platform_cmd.cwd, <<platform_cmd.value>>, "executing")

\* execute_command (lines 175-289)
execute_command(parsed_command, os_name, wd, existing) ==
  IF parsed_command.isNone \/ parsed_command.keys = {}
  THEN Outcome(wd, <<>>, "unexpected result")
  ELSE IF parsed_command.type = "raw_shell_string"
  THEN IF parsed_command.command_string = <<>>
       THEN Outcome(wd, <<>>, "empty raw shell string")
       ELSE Outcome(wd, <<parsed_command.command_string>>,
                    "executing raw shell string")
  ELSE IF parsed_command.type = "raw_command"
          /\ "commands" \notin parsed_command.keys
  THEN Outcome(wd, <<JoinSP(<<parsed_command.command>>
                            \o parsed_command.args)>>,
               "executing single raw command")
  ELSE IF parsed_command.type = "piped_commands"
  THEN PipedLoop(parsed_command.commands, 1, os_name, wd, existing, <<>>)
  ELSE IF "action" \notin parsed_command.keys
  THEN Outcome(wd, <<>>, "no action")
  ELSE SingleAction(get_platform_command(parsed_command.action,
                       parsed_command.args, os_name, wd, existing))

\* ------------------------------------------------------------------------
\* The read loop (zyntax/main.py, main) and the calls of the parser
\* ------------------------------------------------------------------------
MaxLineLen == 2
MaxSegments == 2
MaxRedirLen == 7
MaxSegmentLen == 3
MaxArgs == 3

Texts(alphabet, n) == UNION {[1..k -> alphabet] : k \in 0..n}

\* what is typed at the prompt: every short text of blanks and an unknown
\* word, and one line for each other way the loop can go
LineAlphabet == {SP, "foo"}
Lines ==
  Texts(LineAlphabet, MaxLineLen)
  \cup {<<"exit">>, <<"quit">>, <<"ls">>, <<"cat">>, <<"cat", SP, "foo">>,
        <<"ls", PIPE, "wc">>, <<"ls", PIPE, "foo">>,
        <<"ls", SP, GT, SP, "foo">>, <<"wc", SP, "foo">>, <<"wc">>,
        <<"head", SP, DQ>>, <<"foo", SP, "a.txt">>}

\* what is typed at the question "Did you mean ...? (y/n)": readline()
\* returns the line with its newline, and the empty string at end of input
Confirmations ==
  {<<>>, <<NL>>, <<"y", NL>>, <<"yes", NL>>, <<"Y", NL>>, <<"YES", NL>>,
   <<SP, "y", SP, NL>>, <<"y">>, <<"n", NL>>, <<"y", "y", NL>>,
   <<"y", SP, "yes", NL>>, <<"foo", NL>>, <<"yes", "foo", NL>>}

\* the lines parse_input is called with on its own: up to MaxSegments
\* pieces, joined by a pipe or by the connective
SegmentChoices ==
  {<<>>, <<"foo">>, <<"cat">>, <<"cat", SP, "foo">>, <<"wc">>, <<"ls">>,
   <<"foo", DQ>>, <<"head", SP, DQ>>}

Separators == {<<PIPE>>, <<SP, PIPE, SP>>, <<SP, "phir", SP>>}

RECURSIVE PipeLines(_)
PipeLines(n) ==
  IF n = 1 THEN SegmentChoices
  ELSE LET shorter == PipeLines(n - 1)
       IN shorter \cup {l \o sep \o s : l \in shorter, sep \in Separators,
                                        s \in SegmentChoices}

ParseLines == PipeLines(MaxSegments)

RedirAlphabet == {SP, DQ, GT, "grep"}
RedirLines ==
  Texts(RedirAlphabet, MaxRedirLen)
  \cup {<<"cat", SP, DQ, "foo", GT, "foo", DQ>>,
        <<"cat", SP, DQ, "foo", SP, GT, DQ, SP, "a.txt">>,
        <<"rm", SP, DQ, GT, "foo", DQ>>}

SegmentAlphabet == {SP, DQ, "ls", "cat", "wc", "head", "grep", "foo"}
SegmentTexts == Texts(SegmentAlphabet, MaxSegmentLen)

\* the lines the refiner is looked at with: a command or a phrase, then up
\* to MaxArgs words
ArgWords == {<<"a.txt">>, <<"b.txt">>, <<"to">>, <<"the">>, <<"foo">>}

ArgLists == UNION {[1..k -> ArgWords] : k \in 0..MaxArgs}

Commands ==
  {<<"mv">>, <<"cat">>, <<"rm">>, <<"chmod">>, <<"git", SP, "commit">>,
   <<"ls">>, <<"pwd">>, <<"move">>, <<"commit", SP, "changes">>,
   <<"make", SP, "executable">>}

RefineLines ==
  {JoinSP(<<command>> \o words) : command \in Commands, words \in ArgLists}
  \cup {e.phrase : e \in ACTION_KEYWORDS}
  \cup {<<"cat", SP, "5", SP, "foo">>, <<"cat", SP, "foo", SP, "5">>,
        <<"rm", SP, "the", SP, "5">>,
        <<"chmod", SP, "755", SP, "a.txt">>,
        <<"chmod", SP, "a.txt", SP, "755">>,
        <<"chmod", SP, "755", SP, "the", SP, "a.txt">>,
        <<"chmod", SP, "755">>,
        <<"git", SP, "commit", SP, "-m", SP, DQ, "foo", DQ>>,
        <<"git", SP, "commit", SP, "-m", SP, DQ, "foo", SP, "the", DQ,
          SP, "a.txt">>,
        <<"git", SP, "commit", SP, "-m", SP, "foo">>,
        <<"git", SP, "commit", SP, DQ, "foo", SP, "the", DQ>>,
        <<"git", SP, "commit", SP, DQ, DQ>>,
        <<"git", SP, "commit", SP, "-m", SP, DQ, DQ>>,
        <<"commit", SP, "changes", SP, "-m", SP, DQ, "the", SP, "foo", DQ>>,
        <<"commit", SP, "changes", SP, DQ, "the", SP, "foo", DQ>>,
        <<"commit", SP, "changes", SP, "foo", SP, SP, "a.txt">>,
        <<"foo", SP, "rm", SP, "a.txt">>,
        <<"foo", SP, "move", SP, "a.txt", SP, "b.txt">>,
        <<"rm", SP, "move", SP, "a.txt", SP, "b.txt">>,
        <<"cd", SP, "..">>, <<"cd", SP, "~">>, <<"cd", SP, "home">>,
        <<"cd", SP, "/root">>, <<"cd", SP, "a.txt">>, <<"cd", SP, "foo">>,
        <<"cd", SP, "the">>, <<"cd", SP, "foo", SP, "..">>,
        <<"go", SP, "back", SP, "foo">>, <<"foo", SP, "cd", SP, "..">>,
        <<"foo", SP, "cd", SP, "~">>, <<"move", SP, "to", SP, "home">>,
        <<"move", SP, "to", SP, "..">>, <<"move", SP, "to", SP, "~">>,
        <<"move", SP, "to", SP, "/root">>, <<"move", SP, "to", SP, "foo">>,
        <<"move", SP, "to", SP, "the">>,
        <<"change", SP, "directory", SP, "to", SP, "foo">>,
        <<"change", SP, "directory", SP, "to", SP, "the">>,
        <<"foo", SP, "pwd", SP, "list", SP, "files", SP, "directory">>,
        <<"foo", SP, "pwd", SP, "list", SP, "cat">>,
        <<"find", SP, "files", SP, "containing", SP, "foo">>,
        <<"find", SP, "files", SP, "containing", SP, DQ, "foo", SP, "the",
          DQ>>,
        <<"find", SP, "files", SP, "containing", SP, DQ, DQ>>,
        <<"grep", SP, "foo">>, <<"grep", SP, "foo", SP, "a.txt">>,
        <<"grep", SP, "a.txt">>, <<"grep", SP, DQ, "foo", SP, "the", DQ>>,
        <<"grep", SP, "-m">>, <<"foo", SP, "grep", SP, "a.txt">>,
        <<"rm", SP>>, <<SP, "cat", SP, "a.txt", SP>>, <<"cat", SP, SP>>,
        <<"pwd", SP>>, <<"ls", SP, SP, "a.txt">>, <<"cd", SP, SP, "foo">>,
        <<"rm", SP, "-r", SP, "foo">>, <<"rm", SP, "-rf", SP, "foo">>,
        <<"rm", SP, "foo", SP, "-r">>, <<"rm", SP, "a-r.txt">>,
        <<"rm", SP, "a-r.txt", SP, "b.txt">>, <<"rm", SP, "-m", SP, "foo">>,
        <<"cat", SP, "foo", SP, "a.txt", SP, "foo", SP, "a.txt">>,
        <<"cat", SP, "foo", SP, "FOO">>, <<"cat", SP, "FOO", SP, "foo">>,
        <<"cat", SP, DQ, "foo", DQ, SP, "FOO">>,
        <<"foo", SP, "a.txt", SP, "foo", SP, "a.txt">>,
        <<"foo", SP, "FOO", SP, "a.txt">>}

VARIABLES
  pc,                   \* where the program is
  IS_UNDER_TEST_RUNNER, \* ZYNTAX_TEST_MODE == "1"
  user_input,           \* the line being handled / the text being parsed
  is_part_of_pipe,      \* the flag of a call of the segment parser
  scores,               \* the scorer's answers for the segments of the text
  structured_command,   \* what the parser returned for user_input
  confirmation_line,    \* what was read at the confirmation question
  executed,             \* the commands handed to execute_command for the line
  printed,              \* the last message of the loop
  escaped,              \* the exception that left the parser, if any
  process               \* platform.system(), os.getcwd() and what the last
                        \* call of execute_command handed to subprocess.run

vars == <<pc, IS_UNDER_TEST_RUNNER, user_input, is_part_of_pipe, scores,
          structured_command, confirmation_line, executed, printed, escaped,
          process>>

\* the directory the program is started in
START_DIRECTORY == << <<"srv">> >>

Started(os_name) ==
  [os_name |-> os_name, cwd |-> START_DIRECTORY, ran |-> <<>>, message |-> ""]

\* the paths a command can name that exist when it runs
ExistingChoices ==
  {{}, {<<"foo">>},
   {<<"foo">>, <<"..">>, <<"~">>, actual_home_for_comp, <<"a.txt">>}}

\* the calls of execute_command for the commands of the line: main.py lines
\* 97 and 116-121
Dispatched(commands) ==
  IF commands = <<>> THEN UNCHANGED process
  ELSE \E existing \in ExistingChoices :
         \E outcome \in {execute_command(commands[Len(commands)],
                            process.os_name, process.cwd, existing)} :
           process' = [process EXCEPT !.cwd = outcome.cwd,
                                      !.ran = outcome.ran,
                                      !.message = outcome.message]

Idle ==
  /\ is_part_of_pipe = FALSE
  /\ scores = << <<>> >>
  /\ structured_command = Blank
  /\ confirmation_line = <<>>
  /\ executed = <<>>
  /\ escaped = ""

\* main() before the first prompt
Init ==
  /\ pc = "prompt"
  /\ IS_UNDER_TEST_RUNNER \in BOOLEAN
  /\ user_input = <<>>
  /\ printed = "banner"
  /\ process \in {Started(os_name) : os_name \in OS_NAMES}
  /\ Idle

\* a test that accepts every answer that begins with y or yes
is_affirmative_prefix(confirmation) ==
  confirmation # <<>> /\ Head(confirmation) \in {"y", "yes"}

\* main.py line 91
is_affirmative(confirmation) == confirmation \in {<<"y">>, <<"yes">>}

\* a dispatch that drops the stored arguments
confirmed_command_without_args(suggestion_action_id, suggested_args) ==
  ActionResult(suggestion_action_id, <<>>)

\* main.py lines 93-96
confirmed_command(suggestion_action_id, suggested_args) ==
  ActionResult(suggestion_action_id, suggested_args)

\* a loop that hands every result to the executor
Handle_everything(result) ==
  [pc |-> "prompt", printed |-> "executed", executed |-> <<result>>]

\* lines 54-124: what the loop does with the parser's result
Handle(result) ==
  LET go(p, msg, cmds) == [pc |-> p, printed |-> msg, executed |-> cmds]
  IN IF result.isNone \/ result.keys = {}
     THEN go("prompt", "unexpected result", <<>>)
     ELSE IF result.action = "unrecognized"
     THEN go("prompt", "not recognized", <<>>)
     ELSE IF result.action = "suggest"
     THEN IF result.suggestion_action_id = ""
          THEN go("prompt", "suggestion error", <<>>)
          ELSE go("confirm", "did you mean", <<>>)
     ELSE IF result.action = "error"
     THEN go("prompt", "error", <<>>)
     ELSE IF \/ result.type \in {"raw_shell_string", "piped_commands"}
             \/ (result.type = "raw_command" /\ "commands" \notin result.keys)
     THEN go("prompt", "executed", <<result>>)
     ELSE IF result.action # ""
     THEN go("prompt", "executed", <<result>>)
     ELSE go("prompt", "unhandled", <<>>)

\* lines 51-141 once parse_input has returned result or raised
Parsed_line(result, handled) ==
  /\ structured_command' = result
  /\ IF result.raised # ""
     THEN /\ pc' = "exited"
          /\ printed' = "unexpected error"
          /\ executed' = <<>>
          /\ escaped' = result.raised
          /\ UNCHANGED process
     ELSE /\ pc' = handled.pc
          /\ printed' = handled.printed
          /\ executed' = handled.executed
          /\ escaped' = ""
          /\ Dispatched(handled.executed)

\* lines 42-127 for the line read, text
Handle_line(text, answers) ==
  /\ user_input' = text
  /\ confirmation_line' = <<>>
  /\ IF lower(text) \in {<<"exit">>, <<"quit">>}
     THEN /\ pc' = "exited" /\ printed' = "goodbye"
          /\ executed' = <<>>
          /\ UNCHANGED <<scores, structured_command, escaped, process>>
     ELSE IF text = <<>>
     THEN /\ pc' = "prompt" /\ printed' = "prompt"
          /\ executed' = <<>>
          /\ UNCHANGED <<scores, structured_command, escaped, process>>
     ELSE \E s \in line_scores(text, answers) :
            /\ scores' = s
            /\ \E result \in {parse_input(text, s)} :
                 Parsed_line(result, Handle(result))

\* one pass of the loop up to the next read: lines 30-127
ReadLine(line, answers) ==
  /\ pc = "prompt"
  /\ Handle_line(IF IS_UNDER_TEST_RUNNER THEN strip(Append(line, NL))
                 ELSE line, answers)
  /\ UNCHANGED <<IS_UNDER_TEST_RUNNER, is_part_of_pipe>>

\* end of input at the prompt: readline() returns '' (lines 35-37) or
\* input() raises EOFError (lines 129-132)
EndOfInput ==
  /\ pc = "prompt"
  /\ pc' = "exited"
  /\ printed' = "goodbye"
  /\ UNCHANGED <<IS_UNDER_TEST_RUNNER, user_input, is_part_of_pipe, scores,
                 structured_command, confirmation_line, executed, escaped,
                 process>>

\* KeyboardInterrupt while waiting at the prompt (lines 133-136) or at the
\* confirmation question (lines 102-105)
Interrupt ==
  /\ pc \in {"prompt", "confirm"}
  /\ pc' = "exited"
  /\ printed' = "goodbye"
  /\ UNCHANGED <<IS_UNDER_TEST_RUNNER, user_input, is_part_of_pipe, scores,
                 structured_command, confirmation_line, executed, escaped,
                 process>>

\* the answer to the confirmation question: lines 85-100
Confirm(line) ==
  /\ pc = "confirm"
  /\ confirmation_line' = line
  /\ IF line = <<>> /\ IS_UNDER_TEST_RUNNER
     THEN /\ pc' = "exited" /\ printed' = "goodbye"
          /\ UNCHANGED <<executed, process>>
     ELSE IF is_affirmative(lower(strip(line)))
     THEN /\ pc' = "prompt" /\ printed' = "executed"
          /\ executed' =
               Append(executed,
                      confirmed_command(
                        structured_command.suggestion_action_id,
                        structured_command.args))
          /\ Dispatched(<<confirmed_command(
                            structured_command.suggestion_action_id,
                            structured_command.args)>>)
     ELSE /\ pc' = "prompt" /\ printed' = "cancelled"
          /\ UNCHANGED <<executed, process>>
  /\ UNCHANGED <<IS_UNDER_TEST_RUNNER, user_input, is_part_of_pipe, scores,
                 structured_command, escaped>>

Next ==
  \/ \E line \in Lines : ReadLine(line, top_matches_few)
  \/ EndOfInput
  \/ Interrupt
  \/ \E line \in Confirmations : Confirm(line)

Spec == Init /\ [][Next]_vars

\* ------------------------------------------------------------------------
\* parse_input called on its own
\* ------------------------------------------------------------------------
InitParse ==
  /\ pc = "call"
  /\ IS_UNDER_TEST_RUNNER = FALSE
  /\ user_input \in ParseLines
  /\ printed = ""
  /\ process = Started("Linux")
  /\ Idle

InitRedir ==
  /\ pc = "call"
  /\ IS_UNDER_TEST_RUNNER = FALSE
  /\ user_input \in RedirLines
  /\ printed = ""
  /\ process = Started("Linux")
  /\ Idle

ParseCall(answers) ==
  /\ pc = "call"
  /\ \E s \in line_scores(user_input, answers) :
       /\ scores' = s
       /\ \E result \in {parse_input(user_input, s)} :
            /\ structured_command' = result
            /\ escaped' = result.raised
  /\ pc' = "returned"
  /\ UNCHANGED <<IS_UNDER_TEST_RUNNER, user_input, is_part_of_pipe,
                 confirmation_line, executed, printed, process>>

NextParse == ParseCall(top_matches_few)

SpecParse == InitParse /\ [][NextParse]_vars

SpecRedir == InitRedir /\ [][NextParse]_vars

\* parse_input called with a command and its arguments
InitRefine ==
  /\ pc = "call"
  /\ IS_UNDER_TEST_RUNNER = FALSE
  /\ user_input \in RefineLines
  /\ printed = ""
  /\ process = Started("Linux")
  /\ Idle

NextRefine == ParseCall(scorer_answers(user_input))

SpecRefine == InitRefine /\ [][NextRefine]_vars

\* ------------------------------------------------------------------------
\* _parse_single_command_segment called on its own
\* ------------------------------------------------------------------------
InitSegment ==
  /\ pc = "call"
  /\ IS_UNDER_TEST_RUNNER = FALSE
  /\ user_input \in SegmentTexts
  /\ printed = ""
  /\ is_part_of_pipe \in BOOLEAN
  /\ scores = << <<>> >>
  /\ structured_command = Blank
  /\ confirmation_line = <<>>
  /\ executed = <<>>
  /\ escaped = ""
  /\ process = Started("Linux")

SegmentCall ==
  /\ pc = "call"
  /\ \E top_matches \in
          answers_for(user_input, is_part_of_pipe, top_matches_answers) :
       /\ scores' = <<top_matches>>
       /\ \E result \in {_parse_single_command_segment(
                             user_input, is_part_of_pipe, top_matches)} :
            /\ structured_command' = result
            /\ escaped' = result.raised
  /\ pc' = "returned"
  /\ UNCHANGED <<IS_UNDER_TEST_RUNNER, user_input, is_part_of_pipe,
                 confirmation_line, executed, printed, process>>

NextSegment == SegmentCall

SpecSegment == InitSegment /\ [][NextSegment]_vars

\* ------------------------------------------------------------------------
\* parse_input and then execute_command for one line
\* ------------------------------------------------------------------------
ExecLines ==
  {<<"cd", SP, "foo", PIPE, "ls">>, <<"ls", PIPE, "cd", SP, "foo">>,
   <<"cd", SP, "foo", PIPE, "cd", SP, "..">>, <<"cd", SP, "~", PIPE, "wc">>,
   <<"ls", PIPE, "wc">>, <<"cat", SP, "a.txt", PIPE, "grep", SP, "foo">>,
   <<"cat", SP, "a.txt", PIPE, "head", SP, "5">>,
   <<"ls", PIPE, "head", SP, "5", SP, "a.txt">>,
   <<"head", SP, "5", SP, "a.txt", PIPE, "wc">>,
   <<"pwd", PIPE, "cat", SP, "foo", SP, "a.txt">>,
   <<"cat", SP, "a.txt", PIPE, "cd", SP, "a.txt">>,
   <<"cd", SP, "foo">>, <<"cd", SP, "..">>, <<"cd", SP, "~">>,
   <<"cd", SP, "/root">>, <<"ls">>, <<"pwd">>, <<"cat", SP, "a.txt">>,
   <<"rm", SP, "a.txt">>, <<"rm", SP, "-r", SP, "foo">>,
   <<"rm", SP, "a-r.txt">>, <<"head", SP, "5", SP, "a.txt">>,
   <<"head", SP, "a.txt">>, <<"mv", SP, "a.txt", SP, "b.txt">>,
   <<"ls", SP, GT, SP, "foo">>, <<"wc", SP, "foo">>,
   <<"cat", SP, DQ, "foo", SP, "the", DQ>>, <<"foo">>, <<"cat">>}

InitExec ==
  /\ pc = "call"
  /\ IS_UNDER_TEST_RUNNER = FALSE
  /\ user_input \in ExecLines
  /\ printed = ""
  /\ process \in {Started(os_name) : os_name \in OS_NAMES}
  /\ Idle

\* main.py lines 116-121: the result of the parser is handed to
\* execute_command
ExecuteCall ==
  /\ pc = "returned"
  /\ Handle(structured_command).executed # <<>>
  /\ pc' = "executed"
  /\ executed' = Handle(structured_command).executed
  /\ printed' = Handle(structured_command).printed
  /\ Dispatched(Handle(structured_command).executed)
  /\ UNCHANGED <<IS_UNDER_TEST_RUNNER, user_input, is_part_of_pipe, scores,
                 structured_command, confirmation_line, escaped>>

NextExec ==
  \/ ParseCall(scorer_answers(user_input))
  \/ ExecuteCall

SpecExec == InitExec /\ [][NextExec]_vars

\* ------------------------------------------------------------------------
\* Properties
\* ------------------------------------------------------------------------
\* the parser was called for user_input and structured_command is its answer
Parsed ==
  \/ pc = "returned"
  \/ printed \in {"unexpected result", "not recognized", "suggestion error",
                  "did you mean", "error", "executed", "unhandled",
                  "cancelled", "unexpected error"}

\* the exception raised inside the try block of parse_input, "" if none
Fault == parse_input_try(user_input, scores).raised

\* the kind of a result of parse_input
Kind(r) ==
  IF r.isNone THEN "None"
  ELSE IF r.type = "piped_commands" THEN "Piped"
  ELSE IF r.type \in {"raw_shell_string", "raw_command"} THEN "RawPassthrough"
  ELSE IF r.action = "error" THEN "Error"
  ELSE IF r.action = "unrecognized" THEN "Unrecognized"
  ELSE IF r.action = "suggest" THEN "Suggest"
  ELSE IF r.action # "" /\ "args" \in r.keys THEN "Single"
  ELSE "Other"

\* the answers that say yes: y or yes in either case, with any white space
\* around them
Affirmative ==
  {<<"y", NL>>, <<"yes", NL>>, <<"Y", NL>>, <<"YES", NL>>,
   <<SP, "y", SP, NL>>, <<"y">>}

\* C1: no exception leaves parse_input; a fault raised while the line is
\* segmented, matched, extracted or refined comes back as an error result
\* whose message carries the name of the fault's class
C1_NoFaultEscapes ==
  /\ escaped = ""
  /\ structured_command.raised = ""
  /\ (Parsed /\ Fault # "") =>
       /\ Kind(structured_command) = "Error"
       /\ structured_command.message = <<"Internal parser error: ", Fault>>

C1_Witness ==
  /\ Parsed /\ Fault = "ValueError"
  /\ user_input = <<"head", SP, DQ>>
  /\ printed = "error"

\* C2: a suggestion is dispatched only when the answer to the question is
\* y or yes; after any other answer, the end of the input or an interrupt
\* the suggestion is cancelled and nothing is dispatched
C2_ConfirmedOnlyOnYes ==
  Kind(structured_command) = "Suggest" =>
    /\ executed # <<>> => confirmation_line \in Affirmative
    /\ confirmation_line \notin Affirmative => executed = <<>>
    /\ (pc = "prompt" /\ Parsed /\ confirmation_line \notin Affirmative)
         => printed = "cancelled"
    /\ printed = "cancelled" => executed = <<>>

C2_Witness ==
  /\ Kind(structured_command) = "Suggest"
  /\ confirmation_line = <<"y", "y", NL>>
  /\ printed = "cancelled"
  /\ executed = <<>>

\* C3: the loop hands a command to the executor only for a Single, Piped or
\* passthrough result of the parser or for a suggestion answered with yes;
\* never for an unrecognized, error or absent result; at most once per line
C3_DispatchOnlyExecutable ==
  /\ Len(executed) <= 1
  /\ executed # <<>> =>
       \/ /\ Kind(structured_command) \in
               {"Single", "Piped", "RawPassthrough"}
          /\ executed = <<structured_command>>
       \/ /\ Kind(structured_command) = "Suggest"
          /\ confirmation_line \in Affirmative
  /\ (Parsed /\ Kind(structured_command)
                  \in {"Unrecognized", "Error", "None", "Other"})
       => executed = <<>>

C3_Witness ==
  /\ Parsed
  /\ Kind(structured_command) = "Piped"
  /\ executed = <<structured_command>>

\* C4: a confirmed suggestion is dispatched as a plain command with the
\* action id and the argument list stored in the suggestion, which are
\* those the parser returned for the line
C4_ConfirmedSuggestionAsStored ==
  (Kind(structured_command) = "Suggest" /\ executed # <<>>) =>
    /\ structured_command = parse_input(user_input, scores)
    /\ executed[1].keys = {"action", "args"}
    /\ executed[1].type = ""
    /\ executed[1].action = structured_command.suggestion_action_id
    /\ executed[1].args = structured_command.args

C4_Witness ==
  /\ Kind(structured_command) = "Suggest"
  /\ executed # <<>>
  /\ executed[1].action = "make_directory"
  /\ executed[1].args = << <<"foo">> >>

\* the best fuzzy score of the text of a segment over the phrases of
\* ACTION_KEYWORDS: 100 for a text that is one of the phrases, else the
\* first score of the scorer's answer, which is empty when no phrase
\* reaches the suggestion threshold
best_score ==
  IF \E e \in ACTION_KEYWORDS : lower(e.phrase) = strip(lower(user_input))
  THEN 100
  ELSE IF scores[1] = <<>> THEN 0
  ELSE scores[1][1].score

has_direct_match ==
  LET d == DirectScan(user_input, strip(lower(user_input)), 1)
  IN d.matched_direct \/ d.returns

first_word_allowlisted ==
  LET sp == shlex_split(user_input)
  IN sp.ok /\ sp.parts # <<>> /\ lower(Head(sp.parts)) \in COMMON_SHELL_CMDS

\* what the matcher decided, read off the result of the segment parser: a
\* confirmed action is refined into an action with arguments or into the
\* error of a missing argument
is_confirmed == structured_command.type = ""
                /\ structured_command.action
                     \notin {"", "suggest_segment", "unrecognized_segment"}
is_suggestion == structured_command.action = "suggest_segment"
is_unrecognized == structured_command.action = "unrecognized_segment"

three_outcomes ==
  /\ best_score >= 85 => is_confirmed
  /\ (60 <= best_score /\ best_score < 85) =>
       /\ is_suggestion
       /\ structured_command.suggestion_phrase = scores[1][1].phrase
       /\ \E e \in ACTION_KEYWORDS :
            /\ e.phrase = scores[1][1].phrase
            /\ e.action = structured_command.suggestion_action_id
  /\ best_score < 60 => is_unrecognized

\* C5: a segment without a direct-command match, whose first word is not
\* an allow-listed shell command, gets exactly one of three outcomes by its
\* best fuzzy score s: a confirmed action when s >= 85, a suggestion with
\* the best phrase and its action when 60 <= s < 85, unrecognized when
\* s < 60
C5_ThreeOutcomes ==
  (pc = "returned" /\ strip(user_input) # <<>> /\ ~has_direct_match
     /\ ~first_word_allowlisted) => three_outcomes

C5_Witness ==
  /\ pc = "returned" /\ user_input = <<"foo", SP, "cat">>
  /\ ~has_direct_match /\ ~first_word_allowlisted
  /\ best_score = 84 /\ is_suggestion
  /\ structured_command.suggestion_action_id = "make_directory"

\* C5 as it is stated, for every segment without a direct-command match
C5_AsStated ==
  (pc = "returned" /\ strip(user_input) # <<>> /\ ~has_direct_match)
    => three_outcomes

\* the number of double quotes among the first n tokens of s
RECURSIVE QuotesBefore(_, _)
QuotesBefore(s, n) ==
  IF n = 0 THEN 0
  ELSE QuotesBefore(s, n - 1) + (IF s[n] = DQ THEN 1 ELSE 0)

\* a redirection marker stands outside every quoted span: the quotes
\* before it are all closed
redirection_outside_quotes(s) ==
  \E i \in 1..Len(s) :
    s[i] \in REDIRECTION_CHARS /\ QuotesBefore(s, i - 1) % 2 = 0

\* C6: a line with a redirection marker outside every quoted span comes
\* back at once as the raw passthrough of the whole trimmed line
C6_AsStated ==
  (pc = "returned" /\ redirection_outside_quotes(strip(user_input))) =>
    structured_command = RawShellString(strip(user_input))

\* the segments of the line and what the segment parser answers for each
Segments == pipe_segments(strip(user_input))

RECURSIVE SegmentResultsFrom(_, _)
SegmentResultsFrom(segments, i) ==
  IF i > Len(segments) THEN <<>>
  ELSE <<_parse_single_command_segment(segments[i], TRUE, scores[i])>>
       \o SegmentResultsFrom(segments, i + 1)

SegmentResults == SegmentResultsFrom(Segments, 1)

\* a segment with the answer r ends the parse: a suggestion, an error, or
\* an unrecognized text that cannot be split into words
Fails(segment_text, r) ==
  LET sp == shlex_split(segment_text)
  IN \/ r.raised # "" \/ r.isNone
     \/ r.action \in {"suggest_segment", "error"}
     \/ r.type = "raw_shell_string"
     \/ (r.action = "unrecognized_segment" /\ (~sp.ok \/ sp.parts = <<>>))

\* segment i is reached: no segment before it ends the parse
Reached(segments, results, i) ==
  \A j \in 1..(i - 1) : ~Fails(segments[j], results[j])

RECURSIVE Flatten(_)
Flatten(ss) == IF ss = <<>> THEN <<>> ELSE Head(ss) \o Flatten(Tail(ss))

RECURSIVE IsSubsequence(_, _)
IsSubsequence(a, b) ==
  IF a = <<>> THEN TRUE
  ELSE IF b = <<>> THEN FALSE
  ELSE IF Head(a) = Head(b) THEN IsSubsequence(Tail(a), Tail(b))
  ELSE IsSubsequence(a, Tail(b))

Contains(s, sub) ==
  \E i \in 0..(Len(s) - Len(sub)) : SubSeq(s, i + 1, i + Len(sub)) = sub

\* the entry e of a Piped result stands for a segment with the answer r
EntryOf(e, segment_text, r) ==
  IF r.type = "raw_command" \/ r.action = "unrecognized_segment"
  THEN /\ e.type = "raw_command"
       /\ e.segment_text = segment_text
       /\ <<e.command>> \o e.args = shlex_split(segment_text).parts
  ELSE /\ e.keys = {"action", "args"}
       /\ e.action = r.action /\ e.args = r.args

\* C7: the segments are trimmed and not empty, and they come in the order
\* of the line; with more than one segment, all of which resolve, the
\* result is Piped with one entry for each segment in that order; with at
\* most one segment the result is the parse of the whole line as a single
\* command (an error when that parse raises)
C7_SegmenterShape ==
  pc = "returned" =>
    LET segments == Segments
        results == SegmentResults
        n == Len(segments)
    IN /\ \A i \in 1..n :
            /\ segments[i] # <<>>
            /\ ~IsSpace(segments[i][1])
            /\ ~IsSpace(segments[i][Len(segments[i])])
            /\ n > 1 => ~HasTok(segments[i], PIPE)
       /\ IsSubsequence(Flatten(segments), user_input)
       /\ (n > 1 /\ \A i \in 1..n : ~Fails(segments[i], results[i])) =>
            /\ Kind(structured_command) = "Piped"
            /\ Len(structured_command.commands) = n
            /\ \A i \in 1..n :
                 EntryOf(structured_command.commands[i], segments[i],
                         results[i])
       /\ Kind(structured_command) = "Piped" => n > 1
       /\ n <= 1 =>
            LET single == SingleCommand(strip(user_input), scores[1])
            IN IF single.raised # ""
               THEN Kind(structured_command) = "Error"
               ELSE structured_command = single

C7_Witness ==
  /\ pc = "returned"
  /\ user_input = <<"cat", SP, "foo", PIPE, "foo">>
  /\ Segments = << <<"cat", SP, "foo">>, <<"foo">> >>
  /\ Kind(structured_command) = "Piped"
  /\ structured_command.commands[1].action = "display_file"
  /\ structured_command.commands[2].action = "list_files"

\* C8: with more than one segment the result is never a suggestion; a
\* segment that resolves to a suggestion makes the whole parse an error
\* of an ambiguous command whose message holds the text of that segment,
\* and there is no Piped result
C8_NoSuggestionInPipeline ==
  (pc = "returned" /\ Len(Segments) > 1) =>
    LET segments == Segments
        results == SegmentResults
    IN /\ Kind(structured_command) # "Suggest"
       /\ \A i \in 1..Len(segments) :
            results[i].action = "suggest_segment" =>
              /\ Kind(structured_command) = "Error"
              /\ Reached(segments, results, i) =>
                   /\ structured_command.message[1] = "Ambiguous command '"
                   /\ Contains(structured_command.message,
                               <<"' in pipe: '">> \o segments[i] \o <<"'">>)

C8_Witness ==
  /\ pc = "returned"
  /\ user_input = <<"cat", SP, "foo", PIPE, "foo">>
  /\ SegmentResults[2].action = "suggest_segment"
  /\ structured_command.message =
       <<"Ambiguous command '", "make", SP, "directory", "' in pipe: '",
         "foo", "'">>

\* C9: in a pipeline a segment the matcher cannot classify becomes an
\* opaque command only when its first word is an allow-listed shell
\* command; otherwise the parse is an error that names the segment
C9_AsStated ==
  (pc = "returned" /\ Len(Segments) > 1) =>
    LET segments == Segments
        results == SegmentResults
    IN \A i \in 1..Len(segments) :
         (Reached(segments, results, i)
            /\ results[i].action = "unrecognized_segment") =>
           LET sp == shlex_split(segments[i])
           IN IF sp.ok /\ sp.parts # <<>>
                 /\ lower(Head(sp.parts)) \in COMMON_SHELL_CMDS
              THEN Kind(structured_command) \in {"Piped", "Error"}
              ELSE /\ Kind(structured_command) = "Error"
                   /\ Contains(structured_command.message, segments[i])

\* C10: for every line, the empty and the blank line too, the result is of
\* exactly one of the six kinds and never None
C10_AsStated ==
  pc = "returned" =>
    Kind(structured_command) \in
      {"Single", "Piped", "RawPassthrough", "Suggest", "Unrecognized",
       "Error"}

\* a list of strings
IsStringList(args) == \A i \in DOMAIN args : args[i] \in Seq(STRING)

\* the result r is a command for the executor: not absent, not a pipeline,
\* not a passthrough, and its action is none of error, unrecognized, suggest
IsCommand(r) ==
  Kind(r) \notin {"None", "Piped", "RawPassthrough", "Error", "Unrecognized",
                  "Suggest"}

\* C11: a Single result carries an action and a list of arguments; every
\* entry of a Piped result carries a list of arguments and either an action
\* or, for an opaque command, the type raw_command with the name of the
\* command; the arguments are always a list of strings
C11_CommandsCarryArgs ==
  pc = "returned" =>
    /\ IsCommand(structured_command) =>
         /\ {"action", "args"} \subseteq structured_command.keys
         /\ structured_command.action # ""
         /\ IsStringList(structured_command.args)
    /\ Kind(structured_command) = "Piped" =>
         \A i \in DOMAIN structured_command.commands :
           LET e == structured_command.commands[i]
           IN /\ "args" \in e.keys
              /\ IsStringList(e.args)
              /\ \/ "action" \in e.keys /\ e.action # ""
                 \/ /\ e.type = "raw_command"
                    /\ "command" \in e.keys /\ e.command \in Seq(STRING)

C11_Witness ==
  /\ pc = "returned"
  /\ user_input = <<"cat", SP, "foo", PIPE, "wc">>
  /\ Kind(structured_command) = "Piped"
  /\ structured_command.commands[1].keys = {"action", "args"}
  /\ structured_command.commands[2].type = "raw_command"
  /\ "action" \notin structured_command.commands[2].keys

\* C11 as it is stated: every entry of a Piped result carries an action
C11_AsStated ==
  (pc = "returned" /\ Kind(structured_command) = "Piped") =>
    \A i \in DOMAIN structured_command.commands :
      {"action", "args"} \subseteq structured_command.commands[i].keys

\* the line is a phrase of the lexicon, and the action the lexicon maps it to
is_lexicon_phrase == \E e \in ACTION_KEYWORDS : e.phrase = user_input
mapped_action == ActionOf(user_input)

\* the errors of the refiner for an action that lacks an argument
missing_argument_errors(action_id) ==
  {<<"Missing argument for ", action_id>>,
   <<"Missing arguments for ", action_id>>,
   <<"Missing destination for ", action_id>>,
   <<"Missing filename for ", action_id>>,
   <<"Commit message required">>,
   <<"Grep pattern and/or arguments required">>}

\* C12: a line that is exactly a phrase of the lexicon is never answered
\* with a suggestion, a passthrough or unrecognized: the result is the
\* action the lexicon maps the phrase to or, when that action needs an
\* argument the phrase does not give, the refiner's error of the missing
\* argument
C12_ExactPhraseConfirmed ==
  (pc = "returned" /\ is_lexicon_phrase) =>
    \/ /\ Kind(structured_command) = "Single"
       /\ structured_command.action = mapped_action
    \/ /\ Kind(structured_command) = "Error"
       /\ structured_command.message \in missing_argument_errors(mapped_action)
       /\ mapped_action \notin NO_ARG_ACTIONS \cup {"list_files",
                                                   "change_directory"}

C12_Witness ==
  /\ pc = "returned"
  /\ user_input = <<"move", SP, "to">>
  /\ scores = << <<Match(<<"move", SP, "to">>, 100), Match(<<"move">>, 90)>> >>
  /\ structured_command = ActionResult("change_directory", << <<"~">> >>)

\* C12 as it is stated: the result is the mapped action, never an error
C12_AsStated ==
  (pc = "returned" /\ is_lexicon_phrase) =>
    /\ Kind(structured_command) = "Single"
    /\ structured_command.action = mapped_action

\* the line with the phrase of the suggestion typed in the place of its
\* first word, and what parse_input returns for it when the scorer gives
\* the phrase, which the line now starts with, a score of 90
canonical_line ==
  structured_command.suggestion_phrase \o DropN(strip(user_input), 1)

canonical_result ==
  parse_input(canonical_line,
              << <<Match(structured_command.suggestion_phrase, 90)>> >>)

\* C13: a suggestion answered with yes is dispatched as the command that
\* parse_input returns for the line with the phrase typed correctly
C13_AsStated ==
  (Kind(structured_command) = "Suggest" /\ executed # <<>>) =>
    /\ Kind(canonical_result) = "Single"
    /\ executed[1].action = canonical_result.action
    /\ executed[1].args = canonical_result.args

\* the one segment of the line, what lines 394-451 make of it, the action
\* of the matcher and the action after the heuristics of lines 521-612
segment_text == strip(user_input)
segment_lower == strip(lower(segment_text))

matched ==
  DirectOrPreemptive(segment_text, segment_lower, FALSE, scores[1],
                     DirectScan(segment_text, segment_lower, 1))

matcher_action ==
  IF matched.action_id # "" THEN matched.action_id
  ELSE BestExecute(scores[1], 1, segment_lower, NoCandidate).action

disambiguated ==
  Extracted(Locals(segment_text, segment_lower, FALSE, matched,
                   Intent(segment_text, segment_lower, scores[1], matched)))

in_top_matches(action_id) ==
  \E k \in 1..Len(scores[1]) : ActionOf(scores[1][k].phrase) = action_id

action_confirmed ==
  pc = "returned" /\ segment_lower # <<>> /\ ~matched.returns
  /\ matcher_action # ""

\* C14: when the action after the heuristics differs from the action of the
\* matcher, it is the action of a phrase of top_matches, or it is
\* display_file put in the place of list_files because the primary argument
\* of the segment looks like a file name
C14_NoInventedAction ==
  (action_confirmed /\ disambiguated.action_id # matcher_action) =>
    \/ in_top_matches(disambiguated.action_id)
    \/ /\ matcher_action = "list_files"
       /\ disambiguated.action_id = "display_file"
       /\ disambiguated.args # <<>> /\ filename_like(disambiguated.args[1])

C14_Witness ==
  /\ action_confirmed
  /\ user_input = <<"foo", SP, "rm", SP, "a.txt">>
  /\ scores = << <<Match(<<"move">>, 90), Match(<<"rm">>, 70)>> >>
  /\ matcher_action = "move_rename"
  /\ disambiguated.action_id = "delete_file"
  /\ structured_command = ActionResult("delete_file", << <<"a.txt">> >>)

\* C14 as it is stated: an action that differs from the matcher's is always
\* the action of a phrase of top_matches
C14_AsStated ==
  (action_confirmed /\ disambiguated.action_id # matcher_action) =>
    in_top_matches(disambiguated.action_id)

\* the action before the re-classification of list_files, and the extracted
\* arguments of the segment that look like a file name
intent_action == Intent(segment_text, segment_lower, scores[1], matched).action_id

filenames ==
  SelectSeq(extract_relevant_entities(segment_text), filename_like)

\* C15: list_files becomes display_file exactly when one and only one
\* extracted argument looks like a file name, and then the arguments are
\* that file name; otherwise the action stays list_files
C15_AsStated ==
  (action_confirmed /\ intent_action = "list_files") =>
    IF Len(filenames) = 1
    THEN /\ disambiguated.action_id = "display_file"
         /\ structured_command = ActionResult("display_file", filenames)
    ELSE /\ disambiguated.action_id = "list_files"
         /\ structured_command.action = "list_files"

\* C16: for an action without arguments the refiner returns the action with
\* an empty argument list, whatever candidates were extracted, and never an
\* error; the same holds for each of the seven actions put in the place of
\* the confirmed one
C16_ZeroArgActions ==
  action_confirmed =>
    /\ disambiguated.action_id \in NO_ARG_ACTIONS =>
         structured_command = ActionResult(disambiguated.action_id, <<>>)
    /\ \A a \in {"show_path", "whoami", "git_status", "git_init",
                  "system_uptime", "network_interfaces", "env_variables"} :
         RefineArgs([disambiguated EXCEPT !.action_id = a])
           = ActionResult(a, <<>>)

C16_Witness ==
  /\ action_confirmed
  /\ user_input = <<"pwd", SP, "a.txt", SP, "foo">>
  /\ disambiguated.action_id = "show_path"
  /\ disambiguated.args = << <<"a.txt">>, <<"foo">> >>
  /\ structured_command = ActionResult("show_path", <<>>)

single_target_actions ==
  {"make_directory", "create_file", "delete_file", "delete_directory",
   "display_file", "make_executable"}

\* the places of the candidates that look like a path, a number or a
\* quoted string, and of those that are no stop word
preferred(args) ==
  {k \in 1..Len(args) :
     LooksPathLike(args[k]) \/ HasDigit(args[k]) \/ LooksQuoted(args[k])}

non_stopword(args) ==
  {k \in 1..Len(args) : lower(args[k]) \notin selection_ignore_words}

Least(S) == CHOOSE k \in S : \A j \in S : k <= j
Greatest(S) == CHOOSE k \in S : \A j \in S : k >= j

\* C17: a single-target action comes back with one argument, the first
\* candidate that looks like a path, a number or a quoted string, else the
\* last candidate that is no stop word, else the error of a missing
\* argument
C17_AsStated ==
  (action_confirmed /\ disambiguated.action_id \in single_target_actions) =>
    LET args == disambiguated.args
        a == disambiguated.action_id
    IN IF preferred(args) # {}
       THEN structured_command
              = ActionResult(a, <<StripQuotes(args[Least(preferred(args))])>>)
       ELSE IF non_stopword(args) # {}
       THEN structured_command
              = ActionResult(a, <<args[Greatest(non_stopword(args))]>>)
       ELSE /\ Kind(structured_command) = "Error"
            /\ structured_command.message = <<"Missing argument for ", a>>

\* the candidates of a source/destination action after the filter of lines
\* 775-781, and the places of the split keywords that have a candidate on
\* either side
candidates_of(c) == clean_cand_args(candidate_args(c), c.action_id)

inner_keywords(clean) ==
  {i \in 2..(Len(clean) - 1) : lower(clean[i]) \in ARG_SPLIT_KEYWORDS}

\* what the claim says of the result for the candidates clean
split_as_claimed(action_id, clean, result) ==
  LET K == inner_keywords(clean)
      before == SubSeq(clean, 1, Greatest(K) - 1)
      after == SubSeq(clean, Greatest(K) + 1, Len(clean))
  IN IF K # {}
     THEN result = ActionResult(action_id, <<primary_or_joined(before),
                                             primary_or_joined(after)>>)
     ELSE result = ActionResult(action_id, <<clean[1], clean[2]>>)

\* C18: move_rename and copy_file with two candidates or more are split at
\* the last split keyword that has a candidate on either side, the source
\* taken from the candidates before it and the destination from those
\* after it; without such a keyword the source is the first candidate and
\* the destination the second; the arguments are [source, destination]
C18_SourceDestinationSplit ==
  (action_confirmed /\ disambiguated.action_id = "move_rename") =>
    \A a \in {"move_rename", "copy_file"} :
      LET c == [disambiguated EXCEPT !.action_id = a]
      IN Len(candidates_of(c)) >= 2 =>
           /\ split_as_claimed(a, candidates_of(c), RefineArgs(c))
           /\ Len(RefineArgs(c).args) = 2
           /\ a = "move_rename" => structured_command = RefineArgs(c)

C18_Witness ==
  /\ action_confirmed
  /\ user_input = <<"move", SP, "foo", SP, "to", SP, "b.txt">>
  /\ disambiguated.action_id = "move_rename"
  /\ candidates_of(disambiguated) = << <<"foo">>, <<"to">>, <<"b.txt">> >>
  /\ inner_keywords(candidates_of(disambiguated)) = {2}
  /\ structured_command
       = ActionResult("move_rename", << <<"foo">>, <<"b.txt">> >>)

\* the candidates that remain once the split keywords are taken out
usable_candidates(clean) ==
  SelectSeq(clean, LAMBDA arg : lower(arg) \notin ARG_SPLIT_KEYWORDS)

names_a_side(r) ==
  /\ Kind(r) = "Error"
  /\ r.message # <<>>
  /\ r.message[1] \in {"Missing source for ", "Missing destination for ",
                       "Missing source/destination for "}

\* C19: for move_rename, copy_file and chmod, fewer than two candidates
\* besides the split keywords give a missing-argument Error that names the
\* absent side
C19_AsStated ==
  (action_confirmed
     /\ disambiguated.action_id \in {"move_rename", "copy_file", "chmod"}
     /\ Len(usable_candidates(candidates_of(disambiguated))) < 2)
    => names_a_side(structured_command)

\* the trigger phrases of git_commit and the text that follows the one the
\* segment starts with, trimmed of quotes
commit_triggers == {e.phrase : e \in {k \in ACTION_KEYWORDS : k.action = "git_commit"}}

starts_with_trigger == \E ph \in commit_triggers : startswith(segment_lower, ph)

following_text ==
  LET ph == CHOOSE ph \in commit_triggers : startswith(segment_lower, ph)
  IN StripQuotes(strip(DropN(segment_text, Len(ph))))

\* C20: for git_commit an explicit -m "<message>" wins; otherwise the
\* message is the text that follows the trigger phrase, trimmed of quotes;
\* an empty message is the missing-message Error; a successful result has
\* the arguments ['-m', m] with m not empty
C20_AsStated ==
  (action_confirmed /\ disambiguated.action_id = "git_commit"
     /\ starts_with_trigger)
    => IF msg_matches(segment_text) # {}
       THEN structured_command
              = ActionResult("git_commit", << <<"-m">>, msg_match(segment_text) >>)
       ELSE IF following_text # <<>>
       THEN structured_command
              = ActionResult("git_commit", << <<"-m">>, following_text >>)
       ELSE structured_command = ErrorResult(<<"Commit message required">>)

\* the change_directory segments: the phrase they were matched by and the
\* target select_primary_argument picks among their candidates
cd_confirmed == action_confirmed /\ disambiguated.action_id = "change_directory"
cd_phrase == lower(disambiguated.matched_phrase)
cd_target == select_primary_argument(disambiguated.args)

cd_args(home_names) ==
  IF cd_phrase \in go_up_phrases THEN << <<"..">> >>
  ELSE IF cd_phrase \in home_phrases THEN << <<"~">> >>
  ELSE IF cd_target = <<"..">> THEN << <<"..">> >>
  ELSE IF lower(cd_target) \in home_names THEN << <<"~">> >>
  ELSE <<cd_target>>

\* C21: change_directory returns canonical tokens: a fixed go-up or go-back
\* phrase, or the selected target '..', gives ['..']; a fixed home phrase,
\* or the selected target 'home', '~' or the path of the user's home
\* directory, gives ['~']; any other selected target is the one argument,
\* unchanged
C21_CanonicalTokens ==
  (cd_confirmed
     /\ (cd_target # <<>> \/ cd_phrase \in go_up_phrases \cup home_phrases))
    => structured_command
         = ActionResult("change_directory",
                        cd_args({<<"home">>, <<"~">>, <<"/root">>}))

C21_Witness ==
  /\ cd_confirmed
  /\ user_input = <<"cd", SP, "/root">>
  /\ cd_target = <<"/root">>
  /\ structured_command = ActionResult("change_directory", << <<"~">> >>)

\* C21 as stated: only 'home' and '~' are names of the home directory
C21_AsStated ==
  (cd_confirmed
     /\ (cd_target # <<>> \/ cd_phrase \in go_up_phrases \cup home_phrases))
    => structured_command
         = ActionResult("change_directory", cd_args({<<"home">>, <<"~">>}))

\* the phrases of change_directory that ask for a target
target_phrases ==
  {<<"change", SP, "directory", SP, "to">>, <<"change", SP, "to">>,
   <<"move", SP, "to">>, <<"move", SP, "to", SP, "directory">>,
   <<"go", SP, "to", SP, "directory">>}

\* C22: change_directory without any candidate has the arguments ['~'] when
\* the phrase that matched asks for no target, and no arguments when the
\* phrase asks for a target
C22_AsStated ==
  (cd_confirmed /\ disambiguated.args = <<>>
     /\ cd_phrase \notin go_up_phrases \cup home_phrases)
    => structured_command
         = ActionResult("change_directory",
                        IF cd_phrase \in target_phrases THEN <<>>
                        ELSE << <<"~">> >>)

\* the phrases of top_matches whose score is the top score and reaches
\* FUZZY_MATCH_THRESHOLD_EXECUTE, and the phrase the matcher chose
top_matches == scores[1]

tied_at_top ==
  {k \in 1..Len(top_matches) :
     /\ top_matches[k].score >= FUZZY_MATCH_THRESHOLD_EXECUTE
     /\ \A j \in 1..Len(top_matches) :
          top_matches[j].score <= top_matches[k].score}

best_execute_candidate ==
  BestExecute(top_matches, 1, segment_lower, NoCandidate)

context_of(phrase) == context_score(ActionOf(phrase), segment_lower)

matcher_chose ==
  pc = "returned" /\ segment_lower # <<>> /\ ~matched.returns
  /\ matched.action_id = "" /\ Cardinality(tied_at_top) >= 2

redirection_only_inside_quotes(s) ==
  /\ \E i \in 1..Len(s) : s[i] \in REDIRECTION_CHARS
  /\ \A i \in 1..Len(s) :
       s[i] \in REDIRECTION_CHARS =>
         /\ QuotesBefore(s, i - 1) % 2 = 1
         /\ \E c \in (i + 1)..Len(s) : s[c] = DQ

first_word_allowlisted_shell(s) ==
  /\ shlex_split(s).ok /\ shlex_split(s).parts # <<>>
  /\ lower(Head(shlex_split(s).parts)) \in COMMON_SHELL_CMDS

\* C24: a line whose redirection markers all stand inside quoted spans is
\* not handed to the shell as a raw passthrough because of them, whatever
\* its command: it is segmented and matched as any other line
C24_AsStated ==
  (pc = "returned" /\ redirection_only_inside_quotes(strip(user_input))
     /\ ~first_word_allowlisted_shell(strip(user_input)))
    => structured_command.type # "raw_shell_string"

\* the lines that are one segment, not a pipeline, and end as a grep
grep_confirmed ==
  /\ action_confirmed /\ disambiguated.action_id = "grep"
  /\ Len(pipe_segments(strip(user_input))) <= 1

\* C25: outside a pipeline a grep result never carries a pattern alone:
\* with candidates the result has a pattern and a target, the target being
\* '.' when only the pattern was extracted, and without any pattern the
\* result is an Error
C25_AsStated ==
  grep_confirmed =>
    \/ /\ Kind(structured_command) = "Error"
       /\ disambiguated.args = <<>>
    \/ /\ structured_command.action = "grep"
       /\ Len(structured_command.args) = 2
       /\ Len(disambiguated.args) = 1 => structured_command.args[2] = <<".">>

\* the entry of direct_commands that matched the segment
direct_entries ==
  {k \in 1..Len(direct_commands) :
     /\ direct_commands[k].action # "raw_command"
     /\ strip(direct_commands[k].key) = matched.matched_phrase
     /\ startswith(segment_lower, lower(direct_commands[k].key))}

ends_with_separator(key) == key[Len(key)] = SP

\* C26: an entry that ends with a separator matches only a segment with
\* text after the prefix, and that text is the argument text; an entry
\* without a separator matches only the segment that equals it, and the
\* argument text is then empty
C26_DirectMatchCondition ==
  (pc = "returned" /\ segment_lower # <<>> /\ matched.matched_direct) =>
    \E k \in direct_entries :
      IF ends_with_separator(direct_commands[k].key)
      THEN /\ Len(segment_lower) > Len(direct_commands[k].key)
           /\ matched.initial_args # <<>>
           /\ matched.initial_args
                = strip(DropN(segment_text, Len(direct_commands[k].key)))
      ELSE /\ segment_lower = lower(direct_commands[k].key)
           /\ matched.initial_args = <<>>

C26_Witness ==
  /\ pc = "returned"
  /\ user_input = <<SP, "cat", SP, "a.txt", SP>>
  /\ matched.matched_direct
  /\ matched.initial_args = <<"a.txt">>
  /\ structured_command = ActionResult("display_file", << <<"a.txt">> >>)

\* the step taken at the confirmation question on end of input (readline()
\* returns the empty string) or on an interrupt: neither reads a line
cancelled_at_confirmation ==
  pc = "confirm" /\ pc' # "confirm" /\ confirmation_line' = <<>>

\* C27: end of input or an interrupt at the confirmation question dispatches
\* nothing and ends the session: the loop is left at that step, so no later
\* line is parsed or executed
C27_AsStated ==
  [][cancelled_at_confirmation =>
       (executed' = executed /\ pc' = "exited")]_vars

\* C29: a direct rm is delete_directory exactly when one of its arguments is
\* the flag -r or -rf standing alone; file names that hold the characters
\* -r stay delete_file
C29_AsStated ==
  (pc = "returned" /\ segment_lower # <<>> /\ matched.matched_direct
     /\ matched.matched_phrase = <<"rm">>) =>
    /\ matched.action_id
         = Reclassified_flag_only("delete_file", matched.initial_args)
    /\ structured_command.action \in {matched.action_id, "error"}

\* the texts the parser hands to extract_relevant_entities: the segment
\* (lines 598, 622) and the text after a direct command (line 594)
extractor_inputs == {segment_text, matched.initial_args}

no_two_equal_ignoring_case(entities) ==
  \A i, j \in 1..Len(entities) :
    i # j => lower(entities[i]) # lower(entities[j])

\* the positions of the text at which the entity stands
appears_at(entity, text) ==
  {i \in 1..Len(text) :
     /\ i + Len(entity) - 1 <= Len(text)
     /\ SubSeq(text, i, i + Len(entity) - 1) = entity}

in_order_of_first_appearance(entities, text) ==
  \A i, j \in 1..Len(entities) :
    (i < j /\ appears_at(entities[i], text) # {}
           /\ appears_at(entities[j], text) # {}) =>
      Least(appears_at(entities[i], text))
        <= Least(appears_at(entities[j], text))

\* C28: the list extract_relevant_entities returns has no two elements that
\* are equal ignoring case, and its elements stand in the order of their
\* first appearance in the text
C28_AsStated ==
  pc = "returned" =>
    \A text \in extractor_inputs :
      /\ no_two_equal_ignoring_case(extract_relevant_entities(text))
      /\ in_order_of_first_appearance(extract_relevant_entities(text), text)

\* a call of execute_command that rejects a pipeline at one of its segments
rejected_pipeline ==
  /\ pc = "returned" /\ pc' = "executed"
  /\ structured_command.type = "piped_commands"
  /\ process'.message \in {"unmappable", "python-internal", "unsupported"}

\* C30: when execute_command rejects a pipeline because of one of its
\* segments, nothing is handed to the shell and the working directory is
\* what it was before the call
C30_AsStated ==
  [][rejected_pipeline =>
       (process'.ran = <<>> /\ process'.cwd = process.cwd)]_vars

====
